---- MODULE Spec2Model ----
(***************************************************************************)
(* Cartographer: the multi-signal primary-key / foreign-key inference      *)
(* engine (src/inference.py).                                               *)
(*                                                                          *)
(* Representation.                                                          *)
(*   - A string is a sequence of one-character strings.                     *)
(*   - A real number that the code keeps as a float is kept as an exact     *)
(*     integer in a fixed unit: weights and thresholds in hundredths,       *)
(*     composite scores in thousandths (the code rounds them to three       *)
(*     decimals), ratios as cross-multiplied integer inequalities.          *)
(*   - A DataFrame is a record [name, n, cols]; a column is a record        *)
(*     [name, dtype, vals, nulls] where nulls is the set of row numbers     *)
(*     holding NaN / None / NaT.                                            *)
(***************************************************************************)
EXTENDS Integers, Sequences, FiniteSets, TLC

(***************************************************************************)
(* Generic helpers                                                          *)
(***************************************************************************)
Max2(a, b) == IF a >= b THEN a ELSE b

Min2(a, b) == IF a <= b THEN a ELSE b

RECURSIVE Gcd(_, _)
Gcd(a, b) == IF b = 0 THEN a ELSE Gcd(b, a % b)

Range(s) == { s[i] : i \in 1..Len(s) }

\* The elements of a finite set of integers in increasing order
RECURSIVE SortedSeq(_)
SortedSeq(S) ==
    IF S = {} THEN << >>
    ELSE LET lo == CHOOSE x \in S : \A y \in S : x <= y
         IN  << lo >> \o SortedSeq(S \ {lo})

\* Python str.startswith / str.endswith
StartsWith(s, p) ==
    /\ Len(p) <= Len(s)
    /\ \A i \in 1..Len(p) : s[i] = p[i]

EndsWith(s, p) ==
    /\ Len(p) <= Len(s)
    /\ \A i \in 1..Len(p) : s[Len(s) - Len(p) + i] = p[i]

DropLast(s, k) == SubSeq(s, 1, Len(s) - k)

(***************************************************************************)
(* Characters                                                               *)
(***************************************************************************)
UpperCs == << "A","B","C","D","E","F","G","H","I","J","K","L","M",
              "N","O","P","Q","R","S","T","U","V","W","X","Y","Z" >>

LowerCs == << "a","b","c","d","e","f","g","h","i","j","k","l","m",
              "n","o","p","q","r","s","t","u","v","w","x","y","z" >>

DigitCs == << "0","1","2","3","4","5","6","7","8","9" >>

IsUpper(c) == c \in Range(UpperCs)

IsLower(c) == c \in Range(LowerCs)

IsDigit(c) == c \in Range(DigitCs)

\* str.lower() on one character
LowerChar(c) ==
    IF IsUpper(c)
    THEN LowerCs[CHOOSE i \in 1..26 : UpperCs[i] = c]
    ELSE c

(***************************************************************************)
(* Name helpers                                                             *)
(***************************************************************************)
\* re.sub(r"[^a-z0-9]", "_", name.lower())
SubNonAlnum(name) ==
    [ i \in 1..Len(name) |->
        LET c == LowerChar(name[i])
        IN  IF IsLower(c) \/ IsDigit(c) THEN c ELSE "_" ]

\* re.sub(r"_+", "_", n): keep a character unless it is an underscore that
\* follows an underscore.
RECURSIVE CollapseUnderscores(_)
CollapseUnderscores(n) ==
    IF Len(n) <= 1 THEN n
    ELSE LET rest == CollapseUnderscores(Tail(n))
         IN  IF Head(n) = "_" /\ Head(rest) = "_"
             THEN rest
             ELSE << Head(n) >> \o rest

\* str.strip("_")
RECURSIVE StripUnderscores(_)
StripUnderscores(n) ==
    IF Len(n) = 0 THEN n
    ELSE IF Head(n) = "_" THEN StripUnderscores(Tail(n))
    ELSE IF n[Len(n)] = "_" THEN StripUnderscores(DropLast(n, 1))
    ELSE n

\* The name lowercased and collapsed, not stripped
CleanUnstripped(name) == CollapseUnderscores(SubNonAlnum(name))

clean_name(name) == StripUnderscores(CollapseUnderscores(SubNonAlnum(name)))

SufId == << "_", "i", "d" >>

SufKey == << "_", "k", "e", "y" >>

SufCode == << "_", "c", "o", "d", "e" >>

SufNum == << "_", "n", "u", "m" >>

SufNo == << "_", "n", "o" >>

\* re.sub(r"_id$", "", col_clean)
id_stem(col_clean) ==
    IF EndsWith(col_clean, SufId) THEN DropLast(col_clean, 3) ELSE col_clean

is_pk_name(col_clean, tname_clean) ==
    \/ col_clean = << "i", "d" >>
    \/ col_clean = tname_clean \o SufId
    \/ /\ EndsWith(col_clean, SufId)
       /\ StartsWith(tname_clean, id_stem(col_clean))

is_fk_exact(col_clean, t2_clean) == col_clean = t2_clean \o SufId

is_fk_for(col_clean, t2_clean) ==
    \/ col_clean = t2_clean \o SufId
    \/ /\ EndsWith(col_clean, SufId)
       /\ StartsWith(t2_clean, id_stem(col_clean))

\* re.sub(r"_(id|key|code|num|no)$", "", c): the alternatives are tried in
\* order at the leftmost position where one of them reaches the end.
StripKeySuffix(c) ==
    IF EndsWith(c, SufCode) THEN DropLast(c, 5)
    ELSE IF EndsWith(c, SufKey) THEN DropLast(c, 4)
    ELSE IF EndsWith(c, SufNum) THEN DropLast(c, 4)
    ELSE IF EndsWith(c, SufId) THEN DropLast(c, 3)
    ELSE IF EndsWith(c, SufNo) THEN DropLast(c, 3)
    ELSE c

(***************************************************************************)
(* Jaro-Winkler similarity, as an exact fraction [num, den]                 *)
(***************************************************************************)
\* The first loop of _jaro_winkler (the greedy window matching), from
\* position i on; m1 and m2 are the matched positions of s1 and s2.
RECURSIVE JaroMatch(_, _, _, _, _, _)
JaroMatch(s1, s2, match_dist, i, m1, m2) ==
    IF i > Len(s1) THEN [m1 |-> m1, m2 |-> m2]
    ELSE LET lo   == Max2(1, i - match_dist)
             hi   == Min2(i + match_dist, Len(s2))
             free == { j \in lo..hi : j \notin m2 /\ s1[i] = s2[j] }
         IN  IF free = {}
             THEN JaroMatch(s1, s2, match_dist, i + 1, m1, m2)
             ELSE LET j == CHOOSE x \in free : \A y \in free : x <= y
                  IN  JaroMatch(s1, s2, match_dist, i + 1,
                                m1 \cup {i}, m2 \cup {j})

\* The second loop: matched characters of s1 and s2 taken in order, counted
\* where they differ.
JaroTranspositions(s1, s2, m1, m2) ==
    LET a == SortedSeq(m1)
        b == SortedSeq(m2)
    IN  Cardinality({ k \in 1..Len(a) : s1[a[k]] # s2[b[k]] })

\* sum(1 for i in range(min(4, l1, l2)) if s1[i] == s2[i])
JaroPrefix(s1, s2) ==
    Cardinality({ i \in 1..Min2(4, Min2(Len(s1), Len(s2))) : s1[i] = s2[i] })

_jaro_winkler(s1, s2) ==
    IF s1 = s2 THEN [num |-> 1, den |-> 1]
    ELSE IF Len(s1) = 0 \/ Len(s2) = 0 THEN [num |-> 0, den |-> 1]
    ELSE LET l1 == Len(s1)
             l2 == Len(s2)
             match_dist == Max2((Max2(l1, l2) \div 2) - 1, 0)
             mm == JaroMatch(s1, s2, match_dist, 1, {}, {})
             matches == Cardinality(mm.m1)
             t == JaroTranspositions(s1, s2, mm.m1, mm.m2)
             \* jaro = (m/l1 + m/l2 + (m - t/2)/m) / 3 = jn / jd
             jd == 6 * matches * l1 * l2
             jn == 2 * matches * matches * l2 + 2 * matches * matches * l1
                     + (2 * matches - t) * l1 * l2
             prefix == JaroPrefix(s1, s2)
         IN  IF matches = 0 THEN [num |-> 0, den |-> 1]
             \* jaro + prefix * 0.1 * (1 - jaro)
             ELSE [num |-> 10 * jn + prefix * (jd - jn), den |-> 10 * jd]

\* The value of the local jaro at line 160, for strings with a match
JaroOf(s1, s2) ==
    LET l1 == Len(s1)
        l2 == Len(s2)
        mm == JaroMatch(s1, s2, Max2((Max2(l1, l2) \div 2) - 1, 0), 1, {}, {})
        matches == Cardinality(mm.m1)
        t == JaroTranspositions(s1, s2, mm.m1, mm.m2)
    IN  [matches |-> matches,
         num |-> 2 * matches * matches * l2 + 2 * matches * matches * l1
                   + (2 * matches - t) * l1 * l2,
         den |-> 6 * matches * l1 * l2]

\* q >= pct / 100 for a fraction q
FracAtLeast(q, pct) == 100 * q.num >= pct * q.den

\* floor(100 * q): the value of a fraction in whole hundredths
FracHundredths(q) == (100 * q.num) \div q.den

(***************************************************************************)
(* Columns and tables                                                       *)
(*                                                                          *)
(* dtype is the pandas dtype of the column: "int64", "float64",             *)
(* "datetime64" or "object".  A cell of an int64 or float64 column is a     *)
(* natural number (the float columns hold whole numbers), a cell of a       *)
(* datetime64 column is a day of January 2024, a cell of an object column   *)
(* is a string.  An int64 column has no nulls (pandas stores a numeric      *)
(* column that has a NaN as float64).                                       *)
(***************************************************************************)
\* len(df)
NRows(T) == T.n

\* df.columns.tolist(), as column numbers
ColIdx(T) == [ i \in 1..Len(T.cols) |-> i ]

ColNames(T) == [ i \in 1..Len(T.cols) |-> T.cols[i].name ]

\* pd.api.types.is_numeric_dtype / is_datetime64_any_dtype
_col_dtype_class(col) ==
    IF col.dtype \in {"int64", "float64"} THEN "numeric"
    ELSE IF col.dtype = "datetime64" THEN "datetime"
    ELSE "string"

\* str(n) for a natural number
RECURSIVE ToDigits(_)
ToDigits(k) ==
    IF k < 10 THEN << DigitCs[k + 1] >>
    ELSE ToDigits(k \div 10) \o << DigitCs[(k % 10) + 1] >>

\* One cell under Series.astype(str)
AsStr(dtype, v) ==
    IF dtype = "int64" THEN ToDigits(v)
    ELSE IF dtype = "float64" THEN ToDigits(v) \o << ".", "0" >>
    ELSE IF dtype = "datetime64"
         THEN << "2", "0", "2", "4", "-", "0", "1", "-" >>
              \o (IF v < 10 THEN << "0" >> ELSE << >>) \o ToDigits(v)
    ELSE v

\* The rows of a column that are not null: series.dropna()
NotNullRows(col) == { i \in 1..Len(col.vals) : i \notin col.nulls }

\* series.notna().all()
NotNaAll(col) == col.nulls \cap (1..Len(col.vals)) = {}

\* series.nunique(): the number of distinct non-null values
NUnique(col) == Cardinality({ col.vals[i] : i \in NotNullRows(col) })

\* set(series.dropna().astype(str))
StrSet(col) == { AsStr(col.dtype, col.vals[i]) : i \in NotNullRows(col) }

\* series.dropna().astype(str).value_counts()[w], 0 when w is absent
StrCount(col, w) ==
    Cardinality({ i \in NotNullRows(col) : AsStr(col.dtype, col.vals[i]) = w })

\* "all-unique + no-nulls": the test of lines 264 and 310
IsKeyLike(T, col) == NotNaAll(col) /\ NUnique(col) = NRows(T)

(***************************************************************************)
(* Format fingerprint                                                       *)
(***************************************************************************)
IsHex(c) == IsDigit(c) \/ LowerChar(c) \in {"a", "b", "c", "d", "e", "f"}

\* \s
IsSpace(c) == c \in {" ", "\t", "\n", "\r"}

AllIn(w, lo, hi, Test(_)) == \A i \in lo..hi : Test(w[i])

IsEmailChar(c) == c # "@" /\ ~IsSpace(c)

IsPhoneChar(c) == IsDigit(c) \/ IsSpace(c) \/ c \in {"-", "(", ")", "."}

\* ^\d{4}-\d{2}-\d{2} at the start of w
IsoDatePrefix(w) ==
    /\ Len(w) >= 10
    /\ AllIn(w, 1, 4, IsDigit) /\ w[5] = "-"
    /\ AllIn(w, 6, 7, IsDigit) /\ w[8] = "-"
    /\ AllIn(w, 9, 10, IsDigit)

\* pat.match(w) for the pattern called name in FORMAT_PATTERNS
MatchesFormat(name, w) ==
    LET L == Len(w)
    IN  CASE name = "uuid" ->
               /\ L = 36
               /\ \A i \in 1..36 :
                    IF i \in {9, 14, 19, 24} THEN w[i] = "-" ELSE IsHex(w[i])
          [] name = "email" ->
               \E a \in 2..L : \E d \in (a + 2)..(L - 1) :
                    /\ w[a] = "@" /\ w[d] = "."
                    /\ AllIn(w, 1, a - 1, IsEmailChar)
                    /\ AllIn(w, a + 1, d - 1, IsEmailChar)
                    /\ AllIn(w, d + 1, L, IsEmailChar)
          [] name = "zip_us" ->
               \/ L = 5 /\ AllIn(w, 1, 5, IsDigit)
               \/ /\ L = 10 /\ AllIn(w, 1, 5, IsDigit) /\ w[6] = "-"
                  /\ AllIn(w, 7, 10, IsDigit)
          [] name = "phone" ->
               \/ L \in 7..15 /\ AllIn(w, 1, L, IsPhoneChar)
               \/ L \in 8..16 /\ w[1] = "+" /\ AllIn(w, 2, L, IsPhoneChar)
          [] name = "iso_date" -> L = 10 /\ IsoDatePrefix(w)
          [] name = "iso_ts" ->
               /\ L >= 16 /\ IsoDatePrefix(w)
               /\ w[11] \in {" ", "T"}
               /\ AllIn(w, 12, 13, IsDigit) /\ w[14] = ":"
               /\ AllIn(w, 15, 16, IsDigit)
          [] name = "hex_color" ->
               L \in 4..7 /\ w[1] = "#" /\ AllIn(w, 2, L, IsHex)
          [] name = "int_code" -> L \in 1..6 /\ AllIn(w, 1, L, IsDigit)
          [] name = "alpha_code" -> L \in 2..4 /\ AllIn(w, 1, L, IsUpper)
          [] OTHER -> FALSE

\* The names of FORMAT_PATTERNS, in list order
FORMAT_PATTERNS ==
    << "uuid", "email", "zip_us", "phone", "iso_date", "iso_ts",
       "hex_color", "int_code", "alpha_code" >>

\* The default of the parameter sample of _format_fingerprint
FORMAT_SAMPLE == 200

\* _format_fingerprint(series): the first format that at least 80% of the
\* probed values match, "" for None.  With at most FORMAT_SAMPLE non-null
\* values the probe is a permutation of all of them; the tables of this
\* model stay below that, so the seeded draw (random_state=42) never drops
\* a value.
_format_fingerprint(col) ==
    LET rows == NotNullRows(col)
        k    == Cardinality(rows)
        Hits(name) ==
            Cardinality({ i \in rows :
                            MatchesFormat(name, AsStr(col.dtype, col.vals[i])) })
        ok == { j \in 1..Len(FORMAT_PATTERNS) :
                    5 * Hits(FORMAT_PATTERNS[j]) >= 4 * Min2(FORMAT_SAMPLE, k) }
    IN  IF k = 0 \/ ok = {} THEN ""
        ELSE FORMAT_PATTERNS[CHOOSE j \in ok : \A h \in ok : j <= h]

(***************************************************************************)
(* Value signals                                                            *)
(***************************************************************************)
\* _value_overlap: len(s1 & s2) / len(s1), 0.0 when s1 is empty.  The cut
\* unique()[:50_000] keeps every value of the tables of this model.
_value_overlap(col1, col2) ==
    LET s1 == StrSet(col1)
        s2 == StrSet(col2)
    IN  IF s1 = {} THEN [num |-> 0, den |-> 1]
        ELSE [num |-> Cardinality(s1 \cap s2), den |-> Cardinality(s1)]

\* sum(f[x] for x in S)
RECURSIVE SumOver(_, _)
SumOver(S, f) ==
    IF S = {} THEN 0
    ELSE LET x == CHOOSE y \in S : TRUE
         IN  f[x] + SumOver(S \ {x}, f)

\* _distribution_similarity: the cosine of the two value-count vectors over
\* the union vocabulary, kept as dot, n1^2 and n2^2 (cos = dot / sqrt(sq1 * sq2))
_distribution_similarity(col1, col2) ==
    LET vocab == StrSet(col1) \cup StrSet(col2)
        Dot == [w \in vocab |-> StrCount(col1, w) * StrCount(col2, w)]
        Sq1 == [w \in vocab |-> StrCount(col1, w) * StrCount(col1, w)]
        Sq2 == [w \in vocab |-> StrCount(col2, w) * StrCount(col2, w)]
    IN  IF StrSet(col1) = {} \/ StrSet(col2) = {}
        THEN [dot |-> 0, sq1 |-> 1, sq2 |-> 1]
        ELSE [dot |-> SumOver(vocab, Dot),
              sq1 |-> SumOver(vocab, Sq1),
              sq2 |-> SumOver(vocab, Sq2)]

\* cos >= pct / 100 (the dot product of two count vectors is never negative)
CosAtLeast(ds, pct) == 10000 * ds.dot * ds.dot >= pct * pct * ds.sq1 * ds.sq2

\* floor(100 * cos)
CosHundredths(ds) ==
    CHOOSE k \in 0..100 :
        /\ CosAtLeast(ds, k)
        /\ (k < 100 => ~CosAtLeast(ds, k + 1))

\* A correlation of 1 where the computation fails or is not defined
NullCorrOneOnFailure(T1, col1, T2, col2) ==
    LET n  == NRows(T1)
        a  == Cardinality(col1.nulls)
        b  == Cardinality(col2.nulls)
        c  == Cardinality(col1.nulls \cap col2.nulls)
    IN  IF NRows(T1) # NRows(T2) \/ n < 2
           \/ n * a - a * a = 0 \/ n * b - b * b = 0
        THEN [zero |-> FALSE, cov |-> 1, var1 |-> 1, var2 |-> 1]
        ELSE [zero |-> FALSE, cov |-> n * c - a * b,
              var1 |-> n * a - a * a, var2 |-> n * b - b * b]

\* _null_pattern_correlation: Pearson's r of the two null masks, kept as
\* cov, var1 and var2 (r = cov / sqrt(var1 * var2)); zero = TRUE stands for
\* the 0.0 returned for unequal lengths, for a mask of zero variance and for
\* the exception raised on fewer than two rows.
_null_pattern_correlation(T1, col1, T2, col2) ==
    LET n  == NRows(T1)
        a  == Cardinality(col1.nulls)
        b  == Cardinality(col2.nulls)
        c  == Cardinality(col1.nulls \cap col2.nulls)
    IN  IF NRows(T1) # NRows(T2) \/ n < 2
           \/ n * a - a * a = 0 \/ n * b - b * b = 0
        THEN [zero |-> TRUE, cov |-> 0, var1 |-> 1, var2 |-> 1]
        ELSE [zero |-> FALSE, cov |-> n * c - a * b,
              var1 |-> n * a - a * a, var2 |-> n * b - b * b]

\* r >= pct / 100
CorrAtLeast(nr, pct) ==
    /\ ~nr.zero
    /\ nr.cov > 0
    /\ 10000 * nr.cov * nr.cov >= pct * pct * nr.var1 * nr.var2

CorrHundredths(nr) ==
    IF ~CorrAtLeast(nr, 0) THEN 0
    ELSE CHOOSE k \in 0..100 :
            /\ CorrAtLeast(nr, k)
            /\ (k < 100 => ~CorrAtLeast(nr, k + 1))

(***************************************************************************)
(* Thresholds and tables of the scorer (hundredths)                         *)
(***************************************************************************)
OVERLAP_HIGH == 98

OVERLAP_MEDIUM == 80

NAME_SIM_HIGH == 85

NAME_SIM_MED == 72

DIST_SIM_HIGH == 90

DIST_SIM_MED == 75

\* The literal 0.80 of line 474
NULL_CORR_MIN == 80

Buckets ==
    { "naming_exact", "cardinality_match", "overlap_high", "name_sim",
      "overlap_medium", "dist_high", "format_match", "dist_med",
      "name_sim_weak", "null_corr" }

WEIGHT_MAP ==
    [ b \in Buckets |->
        CASE b = "naming_exact"      -> 100
          [] b = "cardinality_match" -> 95
          [] b = "overlap_high"      -> 90
          [] b = "name_sim"          -> 60
          [] b = "overlap_medium"    -> 55
          [] b = "dist_high"         -> 50
          [] b = "format_match"      -> 40
          [] b = "dist_med"          -> 30
          [] b = "name_sim_weak"     -> 25
          [] b = "null_corr"         -> 20 ]

LABEL_MAP ==
    [ b \in Buckets |->
        CASE b = "naming_exact"      -> "naming"
          [] b = "name_sim"          -> "name_similarity"
          [] b = "name_sim_weak"     -> "name_similarity"
          [] b = "overlap_high"      -> "value_overlap"
          [] b = "overlap_medium"    -> "value_overlap"
          [] b = "cardinality_match" -> "cardinality"
          [] b = "format_match"      -> "format"
          [] b = "dist_high"         -> "distribution"
          [] b = "dist_med"          -> "distribution"
          [] b = "null_corr"         -> "null_pattern" ]

\* The ranks in the opposite order
CONF_RANK_REVERSED ==
    [ c \in {"low", "medium", "high"} |->
        CASE c = "low" -> 2 [] c = "medium" -> 1 [] c = "high" -> 0 ]

CONF_RANK == [ c \in {"low", "medium", "high"} |->
                 CASE c = "low" -> 0 [] c = "medium" -> 1 [] c = "high" -> 2 ]

\* CONF_RANK.get(c, default)
ConfRankGet(c, default) ==
    IF c \in DOMAIN CONF_RANK THEN CONF_RANK[c] ELSE default

(***************************************************************************)
(* Detection flags                                                          *)
(***************************************************************************)
FlagNames ==
    { "naming", "value_overlap", "cardinality", "format", "distribution",
      "null_pattern" }

\* enable_flags = None
NoFlags == [given |-> FALSE, flags |-> [f \in FlagNames |-> FALSE]]

\* enable_flags = a dict; a key the dict lacks reads as FALSE (flags.get)
GivenFlags(on) == [given |-> TRUE, flags |-> [f \in FlagNames |-> f \in on]]

_build_flags(method, overrides) ==
    IF overrides.given THEN overrides.flags
    ELSE LET use_naming  == method \in {"naming", "both", "all"}
             use_content == method \in {"content", "both", "all", "uniqueness"}
         IN  [ f \in FlagNames |->
                 IF f = "naming" THEN use_naming ELSE use_content ]

(***************************************************************************)
(* The candidate scorer                                                     *)
(***************************************************************************)

\* The measured value signals[k] taken as the weight of the format bucket
MeasuredWeight(sig) ==
    IF sig.bucket = "format_match" THEN sig.raw
    ELSE IF sig.bucket \in DOMAIN WEIGHT_MAP THEN WEIGHT_MAP[sig.bucket]
    ELSE 10

\* The weight a fired signal enters the noisy-OR with:
\* WEIGHT_MAP.get(k, 0.1) for k in signals
SignalWeight(sig) ==
    IF sig.bucket \in DOMAIN WEIGHT_MAP THEN WEIGHT_MAP[sig.bucket] ELSE 10

\* math.prod(1.0 - w for k in signals), as a fraction in lowest terms
RECURSIVE ProdMiss(_)
ProdMiss(signals) ==
    IF signals = << >> THEN [num |-> 1, den |-> 1]
    ELSE LET p == ProdMiss(DropLast(signals, 1))
             w == SignalWeight(signals[Len(signals)])
             n == p.num * (100 - w)
             d == p.den * 100
             g == Gcd(d, n)
         IN  [num |-> n \div g, den |-> d \div g]

\* The sets of buckets whose exact noisy-OR lies halfway between two
\* thousandths and whose double-precision value lies below the half, so that
\* round(x, 3) goes down; on every other halfway set it goes up.  (IEEE-754
\* evaluation of lines 482-485, buckets multiplied in firing order.)
RoundsDown ==
    { {"name_sim_weak", "cardinality_match"},
      {"name_sim_weak", "overlap_medium", "format_match"},
      {"name_sim_weak", "overlap_medium", "cardinality_match", "null_corr"} }

\* round(min(1.0, math.prod(w)), 3): the product of the weights themselves
RECURSIVE ProductScore(_)
ProductScore(signals) ==
    IF signals = << >> THEN 1000
    ELSE (ProductScore(DropLast(signals, 1))
            * SignalWeight(signals[Len(signals)])) \div 100

\* round(min(1.0, 1.0 - prod), 3), in thousandths
CompositeScore(signals) ==
    LET p  == ProdMiss(signals)
        g  == Gcd(1000, p.den)
        \* 1000 * (1 - p) = x / d
        x  == (1000 \div g) * (p.den - p.num)
        d  == p.den \div g
        q  == x \div d
        r  == x % d
        up == IF 2 * r = d
              THEN { signals[i].bucket : i \in 1..Len(signals) } \notin RoundsDown
              ELSE 2 * r > d
    IN  Min2(1000, IF up THEN q + 1 ELSE q)

\* Thresholds taken as exclusive
StrictConfidenceOf(score) ==
    IF score > 850 THEN "high"
    ELSE IF score > 550 THEN "medium"
    ELSE "low"

\* "high" if score >= 0.85 else "medium" if score >= 0.55 else "low"
ConfidenceOf(score) ==
    IF score >= 850 THEN "high"
    ELSE IF score >= 550 THEN "medium"
    ELSE "low"

\* The signal that fired first
FirstSignal(signals) == signals[1].bucket

\* max(signals, key=weight): the first signal of the greatest weight
TopSignal(signals) ==
    LET best == { i \in 1..Len(signals) :
                    \A j \in 1..Len(signals) :
                        SignalWeight(signals[i]) >= SignalWeight(signals[j]) }
    IN  signals[CHOOSE i \in best : \A j \in best : i <= j].bucket

\* The value None of _score_candidate
NoResult ==
    [ok |-> FALSE, signals |-> << >>, score |-> 0, confidence |-> "low",
     detected_by |-> "content"]

\* A result for every signals dict, the empty one included
AggregateAny(signals) ==
    [ok          |-> TRUE,
     signals     |-> signals,
     score       |-> CompositeScore(signals),
     confidence  |-> ConfidenceOf(CompositeScore(signals)),
     detected_by |-> IF signals = << >> THEN "content"
                     ELSE LABEL_MAP[TopSignal(signals)]]

\* Lines 478-497: the result built from the fired signals.  reasons is left
\* out: it holds one text per fired signal, in the order of signals.
Aggregate(signals) ==
    IF signals = << >> THEN NoResult
    ELSE LET score == CompositeScore(signals)
             top   == TopSignal(signals)
         IN  [ok          |-> TRUE,
              signals     |-> signals,
              score       |-> score,
              confidence  |-> ConfidenceOf(score),
              detected_by |-> IF top \in DOMAIN LABEL_MAP
                              THEN LABEL_MAP[top] ELSE "content"]

Sig(bucket, raw) == [bucket |-> bucket, raw |-> raw]

\* A naming step whose exact rule also looks at the target column: it
\* fires only when col2 has the name of col1
NamingSignalsByColumn(col1, T2, col2, flags) ==
    IF ~flags["naming"] THEN << >>
    ELSE IF /\ is_fk_for(clean_name(col1.name), clean_name(T2.name))
            /\ clean_name(col2.name) = clean_name(col1.name)
    THEN << Sig("naming_exact", 100) >>
    ELSE << >>

\* 1. Naming (lines 413-429)
NamingSignals(col1, T2, col2, flags) ==
    IF ~flags["naming"] THEN << >>
    ELSE LET c1  == clean_name(col1.name)
             t2c == clean_name(T2.name)
         IN  IF is_fk_for(c1, t2c) THEN << Sig("naming_exact", 100) >>
             ELSE LET stem1 == StripKeySuffix(c1)
                      stem2 == StripKeySuffix(clean_name(col2.name))
                      sim   == _jaro_winkler(stem1, stem2)
                  IN  IF FracAtLeast(sim, NAME_SIM_HIGH)
                      THEN << Sig("name_sim", FracHundredths(sim)) >>
                      ELSE IF FracAtLeast(sim, NAME_SIM_MED)
                      THEN << Sig("name_sim_weak", FracHundredths(sim)) >>
                      ELSE << >>

\* A guard that lets a fired naming signal through
TypeGateUnlessNamed(signals, col1, col2) ==
    signals = << >> /\ _col_dtype_class(col1) # _col_dtype_class(col2)

\* 2. Type compatibility guard (lines 431-433): TRUE when the scorer
\* returns None here.  signals holds what the naming step fired.
TypeGateRejects(signals, col1, col2) ==
    _col_dtype_class(col1) # _col_dtype_class(col2)

\* 3. Value overlap (lines 435-443)
OverlapSignals(T1, col1, T2, col2, flags) ==
    IF ~(flags["value_overlap"] /\ NRows(T1) > 0 /\ NRows(T2) > 0) THEN << >>
    ELSE LET ov == _value_overlap(col1, col2)
         IN  IF FracAtLeast(ov, OVERLAP_HIGH)
             THEN << Sig("overlap_high", FracHundredths(ov)) >>
             ELSE IF FracAtLeast(ov, OVERLAP_MEDIUM)
             THEN << Sig("overlap_medium", FracHundredths(ov)) >>
             ELSE << >>

\* 4. Cardinality (lines 445-451)
CardinalitySignals(T1, col1, T2, col2, flags) ==
    IF ~(flags["cardinality"] /\ NRows(T1) > 0 /\ NRows(T2) > 0) THEN << >>
    ELSE LET u1 == StrSet(col1)
             u2 == StrSet(col2)
         IN  IF u1 # {} /\ u2 # {} /\ u1 = u2
             THEN << Sig("cardinality_match", 100) >>
             ELSE << >>

\* 5. Format fingerprint (lines 453-459)
FormatSignals(T1, col1, T2, col2, flags) ==
    IF ~(flags["format"] /\ NRows(T1) > 0 /\ NRows(T2) > 0) THEN << >>
    ELSE LET fmt1 == _format_fingerprint(col1)
             fmt2 == _format_fingerprint(col2)
         IN  IF fmt1 # "" /\ fmt2 # "" /\ fmt1 = fmt2
             THEN << Sig("format_match", 60) >>
             ELSE << >>

\* 6. Distribution similarity (lines 461-469)
DistributionSignals(T1, col1, T2, col2, flags) ==
    IF ~(flags["distribution"] /\ NRows(T1) > 0 /\ NRows(T2) > 0) THEN << >>
    ELSE LET ds == _distribution_similarity(col1, col2)
         IN  IF CosAtLeast(ds, DIST_SIM_HIGH)
             THEN << Sig("dist_high", CosHundredths(ds)) >>
             ELSE IF CosAtLeast(ds, DIST_SIM_MED)
             THEN << Sig("dist_med", CosHundredths(ds)) >>
             ELSE << >>

\* 7. Null pattern correlation (lines 471-476)
NullPatternSignals(T1, col1, T2, col2, flags) ==
    IF ~(flags["null_pattern"] /\ NRows(T1) = NRows(T2)) THEN << >>
    ELSE LET nr == _null_pattern_correlation(T1, col1, T2, col2)
         IN  IF CorrAtLeast(nr, NULL_CORR_MIN)
             THEN << Sig("null_corr", CorrHundredths(nr)) >>
             ELSE << >>

\* The signals dict at line 478, in insertion order
FiredSignals(T1, col1, T2, col2, flags) ==
    NamingSignals(col1, T2, col2, flags)
        \o OverlapSignals(T1, col1, T2, col2, flags)
        \o CardinalitySignals(T1, col1, T2, col2, flags)
        \o FormatSignals(T1, col1, T2, col2, flags)
        \o DistributionSignals(T1, col1, T2, col2, flags)
        \o NullPatternSignals(T1, col1, T2, col2, flags)

\* _score_candidate(t1, col1, df1, t2, col2, df2, flags); i1 and i2 are the
\* numbers of col1 in df1 and of col2 in df2.
_score_candidate(T1, i1, T2, i2, flags) ==
    LET col1 == T1.cols[i1]
        col2 == T2.cols[i2]
    IN  IF TypeGateRejects(NamingSignals(col1, T2, col2, flags), col1, col2)
        THEN NoResult
        ELSE Aggregate(FiredSignals(T1, col1, T2, col2, flags))

(***************************************************************************)
(* The tables the engine is run on                                          *)
(***************************************************************************)
Col(name, dtype, vals, nulls) ==
    [name |-> name, dtype |-> dtype, vals |-> vals, nulls |-> nulls]

Table(name, n, cols) == [name |-> name, n |-> n, cols |-> cols]

\* orders(order_id, customer_id, ship_date): order_id is key-like, row 2 has no ship_date
TOrders ==
    Table(<< "o", "r", "d", "e", "r", "s" >>, 3, <<
    Col(<< "o", "r", "d", "e", "r", "_", "i", "d" >>,
        "int64", << 1, 2, 3 >>, {}),
    Col(<< "c", "u", "s", "t", "o", "m", "e", "r", "_", "i", "d" >>,
        "int64", << 1, 1, 2 >>, {}),
    Col(<< "s", "h", "i", "p", "_", "d", "a", "t", "e" >>,
        "datetime64", << 5, 5, 6 >>, {2}) >>)

\* customers(customer_id, name): both columns are key-like
TCustomers ==
    Table(<< "c", "u", "s", "t", "o", "m", "e", "r", "s" >>, 3, <<
    Col(<< "c", "u", "s", "t", "o", "m", "e", "r", "_", "i", "d" >>,
        "int64", << 1, 2, 3 >>, {}),
    Col(<< "n", "a", "m", "e" >>,
        "object", << << "a", "n", "n" >>, << "b", "o", "b" >>, << "c", "y" >> >>, {}) >>)

\* clients(Client ID, Client No, code): Client ID and Client No are
\* key-like and hold the same values
TClients ==
    Table(<< "c", "l", "i", "e", "n", "t", "s" >>, 3, <<
    Col(<< "C", "l", "i", "e", "n", "t", " ", "I", "D" >>,
        "int64", << 1, 2, 3 >>, {}),
    Col(<< "C", "l", "i", "e", "n", "t", " ", "N", "o" >>,
        "int64", << 1, 2, 3 >>, {}),
    Col(<< "c", "o", "d", "e" >>,
        "object", << << "A", "B" >>, << "A", "B" >>, << "C", "D" >> >>, {}) >>)

\* customer(customer_id, zip): an empty table of text columns
TCustomer ==
    Table(<< "c", "u", "s", "t", "o", "m", "e", "r" >>, 0, <<
    Col(<< "c", "u", "s", "t", "o", "m", "e", "r", "_", "i", "d" >>,
        "object", << >>, {}),
    Col(<< "z", "i", "p" >>,
        "object", << >>, {}) >>)

\* shipments(order_id, ship_date): no key-like column, row 2 has no ship_date
TShipments ==
    Table(<< "s", "h", "i", "p", "m", "e", "n", "t", "s" >>, 3, <<
    Col(<< "o", "r", "d", "e", "r", "_", "i", "d" >>,
        "int64", << 1, 1, 3 >>, {}),
    Col(<< "s", "h", "i", "p", "_", "d", "a", "t", "e" >>,
        "datetime64", << 5, 5, 7 >>, {2}) >>)

Catalog == << TOrders, TCustomers, TClients, TCustomer, TShipments >>

(***************************************************************************)
(* Primary-key detection                                                    *)
(***************************************************************************)

\* The suffixes named in the docstring of detect_pks only
IsIdLikeShort(c) == EndsWith(c, SufId) \/ EndsWith(c, SufKey)

\* re.search(r"(_id|_key|_no|_num|_code)$", c)
IsIdLike(c) ==
    \/ EndsWith(c, SufId) \/ EndsWith(c, SufKey) \/ EndsWith(c, SufNo)
    \/ EndsWith(c, SufNum) \/ EndsWith(c, SufCode)

\* method in ("naming", "both")
PkUsesNaming(method) == method \in {"naming", "both"}

\* method in ("uniqueness", "both", "content", "all")
PkUsesContent(method) == method \in {"uniqueness", "both", "content", "all"}

\* The first element of a non-empty set of column numbers
FirstOf(S) == CHOOSE i \in S : \A j \in S : i <= j

\* A naming match that also asks for a key-like column
PkNamedUnique(T) ==
    { i \in 1..Len(T.cols) :
        /\ is_pk_name(clean_name(T.cols[i].name), clean_name(T.name))
        /\ IsKeyLike(T, T.cols[i]) }

\* Lines 255-259: the columns that match the naming rule
PkNamed(T) ==
    { i \in 1..Len(T.cols) :
        is_pk_name(clean_name(T.cols[i].name), clean_name(T.name)) }

\* Lines 262-265: unique_cols
PkUnique(T) == { i \in 1..Len(T.cols) : IsKeyLike(T, T.cols[i]) }

\* Lines 266-267: id_like
PkIdLike(T) == { i \in PkUnique(T) : IsIdLike(clean_name(T.cols[i].name)) }

\* Every unique column returned, not the first
DetectAllKeys(T, method) ==
    IF PkUsesNaming(method) /\ PkNamed(T) # {}
    THEN << T.cols[FirstOf(PkNamed(T))].name >>
    ELSE IF PkUsesContent(method) /\ NRows(T) > 0
    THEN [ k \in 1..Len(SortedSeq(PkUnique(T))) |->
             T.cols[SortedSeq(PkUnique(T))[k]].name ]
    ELSE << >>

\* detect_pks(df, table_name, method): a list of column names
detect_pks(T, method) ==
    IF PkUsesNaming(method) /\ PkNamed(T) # {}
    THEN << T.cols[FirstOf(PkNamed(T))].name >>
    ELSE IF PkUsesContent(method) /\ NRows(T) > 0 /\ PkIdLike(T) # {}
    THEN << T.cols[FirstOf(PkIdLike(T))].name >>
    ELSE IF PkUsesContent(method) /\ NRows(T) > 0 /\ PkUnique(T) # {}
    THEN << T.cols[FirstOf(PkUnique(T))].name >>
    ELSE << >>

(***************************************************************************)
(* Foreign-key detection: the search loop of detect_fks                     *)
(*                                                                          *)
(* tabs is the dict tables as the sequence of its values in key order (the  *)
(* key of a table is its name).                                             *)
(***************************************************************************)
ROW_LIMIT == 150000

COL_LIMIT == 300

\* The literal 0.05 of line 364, in thousandths
NEAR_BEST_MARGIN == 50

\* s occurs somewhere in c
Contains(c, s) ==
    \E k \in 0..(Len(c) - Len(s)) : \A i \in 1..Len(s) : c[k + i] = s[i]

\* re.search(r"(_id|_key|id$|key$)", c)
IsKeyNamed(c) ==
    \/ Contains(c, SufId) \/ Contains(c, SufKey)
    \/ EndsWith(c, << "i", "d" >>) \/ EndsWith(c, << "k", "e", "y" >>)

\* pk_map[t] (lines 303-311): the key-like columns of T, as column numbers
PkMap(T) ==
    SelectSeq(ColIdx(T),
              LAMBDA i : NRows(T) > 0 /\ IsKeyLike(T, T.cols[i]))

\* A loop that passes over no source column
NoPkSkip(T, i) == FALSE

\* col1 in pk_map[t1] (a comparison of column names)
InPkMap(T, i) ==
    /\ NRows(T) > 0
    /\ \E j \in 1..Len(T.cols) :
          T.cols[j].name = T.cols[i].name /\ IsKeyLike(T, T.cols[j])

\* A bound that takes in the tables at the limits
TooLargeFrom(T1) == NRows(T1) >= ROW_LIMIT \/ Len(T1.cols) >= COL_LIMIT

\* len(df1) > 150_000 or len(df1.columns) > 300
TooLarge(T1) == NRows(T1) > ROW_LIMIT \/ Len(T1.cols) > COL_LIMIT

\* Every column of T2 as a candidate
AllTargetCols(T1, T2) == ColIdx(T2)

\* target_cols (lines 336-343), as column numbers of T2
TargetCols(T1, T2) ==
    LET base == IF PkMap(T2) # << >> THEN PkMap(T2) ELSE ColIdx(T2)
    IN  IF TooLarge(T1)
        THEN SelectSeq(base, LAMBDA j : IsKeyNamed(clean_name(T2.cols[j].name)))
        ELSE base

\* A scan in which a later column of the same score replaces the kept one
ScanPickLast(cur, result, col) ==
    IF ~result.ok THEN cur
    ELSE IF ~cur.ok \/ result.score >= cur.res.score
    THEN [ok |-> TRUE, res |-> result, to_col |-> col]
    ELSE cur

\* Lines 352-356: best_result / best_to_col after the target column col
\* scored result; cur = [ok, res, to_col] is the pair before it.
ScanPick(cur, result, col) ==
    IF ~result.ok THEN cur
    ELSE IF ~cur.ok \/ result.score > cur.res.score
    THEN [ok |-> TRUE, res |-> result, to_col |-> col]
    ELSE cur

\* Lines 345-356: the scan of the target columns from the k-th on, in loop
\* order. It is evaluated half by half (the first half of what is left,
\* then the rest starting from what the first half kept), which keeps the
\* evaluation shallow on a table of hundreds of columns.
RECURSIVE ScanTargets(_, _, _, _, _, _, _)
ScanTargets(T1, i1, T2, targets, flags, k, cur) ==
    IF k > Len(targets) THEN cur
    ELSE IF k = Len(targets)
    THEN ScanPick(cur, _score_candidate(T1, i1, T2, targets[k], flags),
                  targets[k])
    ELSE CHOOSE r \in
            { ScanTargets(T1, i1, T2, targets, flags,
                          ((k + Len(targets)) \div 2) + 1, half) :
                half \in { ScanTargets(T1, i1, T2,
                                       SubSeq(targets, 1, (k + Len(targets)) \div 2),
                                       flags, k, cur) } } : TRUE

BestFor(T1, i1, T2, flags) ==
    ScanTargets(T1, i1, T2, TargetCols(T1, T2), flags, 1,
                [ok |-> FALSE, res |-> NoResult, to_col |-> 0])

\* Triples in which t2 may be t1
TripleSetWithSelf(tabs, flags) ==
    UNION { UNION { { << a, i, b >> : b \in 1..Len(tabs) } :
                    i \in { i \in 1..Len(tabs[a].cols) :
                              ~InPkMap(tabs[a], i) } } :
            a \in { a \in 1..Len(tabs) :
                      ~(NRows(tabs[a]) = 0 /\ ~flags["naming"]) } }

\* The (t1, col1, t2) triples whose loop body reaches line 332, as
\* <<number of t1, number of col1, number of t2>>: t1 is passed over when
\* it is empty and naming is off (319), col1 when it is in pk_map[t1]
\* (323), t2 when it is t1 (329).
TripleSet(tabs, flags) ==
    UNION { UNION { { << a, i, b >> :
                        b \in { b \in 1..Len(tabs) :
                                  tabs[b].name # tabs[a].name } } :
                    i \in { i \in 1..Len(tabs[a].cols) :
                              ~InPkMap(tabs[a], i) } } :
            a \in { a \in 1..Len(tabs) :
                      ~(NRows(tabs[a]) = 0 /\ ~flags["naming"]) } }

\* The loops of lines 317, 322 and 328 nest: t1, then col1, then t2
TripleBefore(u, t) ==
    \/ u[1] < t[1]
    \/ u[1] = t[1] /\ u[2] < t[2]
    \/ u[1] = t[1] /\ u[2] = t[2] /\ u[3] < t[3]

\* The triples of S in loop order
TriplesInOrder(S) ==
    [ k \in 1..Cardinality(S) |->
        CHOOSE t \in S : Cardinality({ u \in S : TripleBefore(u, t) }) = k - 1 ]

Triples(tabs, flags) ==
    CHOOSE q \in { TriplesInOrder(S) : S \in { TripleSet(tabs, flags) } } : TRUE

\* f"{t1}|{col1}|{t2}" and f"{t1}|{col1}"
RelKey(T1, col1, T2) == T1.name \o << "|" >> \o col1.name \o << "|" >> \o T2.name

ColKey(T1, col1) == T1.name \o << "|" >> \o col1.name

\* A best dict that outlives the call
KeptAccumulators(prev) ==
    [results |-> << >>, seen |-> {}, best |-> prev.best]

\* results, seen and best as lines 313-315 create them; prev is the record
\* of the caller's previous call, of which nothing is kept.
NewAccumulators(prev) ==
    [results |-> << >>, seen |-> {}, best |-> << >>]

\* A filter that skips what does not exceed the running best by the margin
NearBestSkipsClose(best, col_key, score) ==
    /\ col_key \in DOMAIN best
    /\ best[col_key] + NEAR_BEST_MARGIN > score

\* Line 364: col_key in best and best[col_key] > score + 0.05
NearBestSkips(best, col_key, score) ==
    /\ col_key \in DOMAIN best
    /\ best[col_key] > score + NEAR_BEST_MARGIN

\* A running best that keeps the maximum
KeepMaxBest(best, col_key, score) ==
    [ k \in DOMAIN best \cup {col_key} |->
        IF k = col_key
        THEN (IF col_key \in DOMAIN best THEN Max2(best[k], score) ELSE score)
        ELSE best[k] ]

\* Line 366: best[col_key] = score
NextBest(best, col_key, score) ==
    [ k \in DOMAIN best \cup {col_key} |->
        IF k = col_key THEN score ELSE best[k] ]

\* Lines 369-379: the relationship dict (reasons left out, see Aggregate)
Relationship(T1, col1, T2, br) ==
    [from_table  |-> T1.name,
     from_col    |-> col1.name,
     to_table    |-> T2.name,
     to_col      |-> T2.cols[br.to_col].name,
     detected_by |-> br.res.detected_by,
     confidence  |-> br.res.confidence,
     score       |-> br.res.score,
     signals     |-> br.res.signals]

\* What one pass of the loop body (lines 332-379) does with the candidate
\* br = BestFor(...): "seen", "none", "below", "skip" or "accept".
\* bestRead is the best dict the pass reads.
Verdict(acc, bestRead, T1, col1, T2, br, min_rank) ==
    IF RelKey(T1, col1, T2) \in acc.seen THEN "seen"
    ELSE IF ~br.ok THEN "none"
    ELSE IF ConfRankGet(br.res.confidence, 0) < min_rank THEN "below"
    ELSE IF NearBestSkips(bestRead, ColKey(T1, col1), br.res.score) THEN "skip"
    ELSE "accept"

\* Lines 358-379: the accumulators after the pass that found br
FkApply(acc, bestRead, T1, col1, T2, br, min_rank) ==
    IF Verdict(acc, bestRead, T1, col1, T2, br, min_rank) # "accept"
    THEN acc
    ELSE [results |-> Append(acc.results, Relationship(T1, col1, T2, br)),
          seen    |-> acc.seen \cup {RelKey(T1, col1, T2)},
          best    |-> NextBest(acc.best, ColKey(T1, col1), br.res.score)]

\* One pass of the loop body for the triple tr
FkStep(tabs, flags, min_rank, tr, acc, bestRead) ==
    CHOOSE next \in
        { FkApply(acc, bestRead, tabs[tr[1]], tabs[tr[1]].cols[tr[2]],
                  tabs[tr[3]], br, min_rank) :
            br \in { BestFor(tabs[tr[1]], tr[2], tabs[tr[3]], flags) } } : TRUE

\* The key without the score: (-CONF_RANK[confidence])
TierBefore(a, b) ==
    ConfRankGet(a.confidence, 0) > ConfRankGet(b.confidence, 0)

\* a goes before b under key (-CONF_RANK[confidence], -score)
SortsBefore(a, b) ==
    LET ra == ConfRankGet(a.confidence, 0)
        rb == ConfRankGet(b.confidence, 0)
    IN  ra > rb \/ (ra = rb /\ a.score > b.score)

\* list.sort with that key: a stable sort
RECURSIVE SortResults(_)
SortResults(rs) ==
    IF rs = << >> THEN << >>
    ELSE LET init == SortResults(DropLast(rs, 1))
             x    == rs[Len(rs)]
             k    == Cardinality({ i \in 1..Len(init) : ~SortsBefore(x, init[i]) })
         IN  SubSeq(init, 1, k) \o << x >> \o SubSeq(init, k + 1, Len(init))

\* The loop from the k-th triple on, run without interruption
RECURSIVE RunFrom(_, _, _, _, _, _)
RunFrom(tabs, flags, min_rank, trs, k, acc) ==
    IF k > Len(trs) THEN acc
    ELSE RunFrom(tabs, flags, min_rank, trs, k + 1,
                 FkStep(tabs, flags, min_rank, trs[k], acc, acc.best))

\* The record of a caller that has made no call yet
NoParams == [method |-> "", min_confidence |-> "", enable_flags |-> NoFlags]

IdleCall ==
    [pc |-> "idle", params |-> NoParams, pos |-> 0,
     results |-> << >>, seen |-> {}, best |-> << >>, ret |-> << >>]

\* An early return that does not look at the method
EarlyOnFewTables(method, ntables) == ntables < 2

\* Line 296: method == "manual" or len(tables) < 2
EarlyReturn(method, ntables) == method = "manual" \/ ntables < 2

\* detect_fks(tables, method, min_confidence, enable_flags) run alone
detect_fks(tabs, prm) ==
    IF EarlyReturn(prm.method, Len(tabs)) THEN << >>
    ELSE LET min_rank == ConfRankGet(prm.min_confidence, 1)
             flags    == _build_flags(prm.method, prm.enable_flags)
         IN  SortResults(RunFrom(tabs, flags, min_rank, Triples(tabs, flags),
                                 1, NewAccumulators(IdleCall)).results)

(***************************************************************************)
(* Bounds and input sets                                                    *)
(***************************************************************************)
\* The largest number of tables in one dict given to detect_fks
MaxTables == 3

\* The largest number of columns and of rows of a table given to detect_pks
MaxPkCols == 2

MaxPkRows == 2

\* Threads that call the engine object _inference_engine of app.py
Callers == {1, 2}

\* The columns the tables given to detect_pks are made of
PkPool ==
    << 
       Col(<< "i", "d" >>, "int64",
           << 1, 1, 2 >>, {}),
       Col(<< "O", "r", "d", "e", "r", " ", "I", "D" >>, "int64",
           << 1, 2, 3 >>, {}),
       Col(<< "r", "e", "f", "_", "n", "o" >>, "object",
           << << "a" >>, << "b" >>, << "c" >> >>, {}),
       Col(<< "n", "a", "m", "e" >>, "object",
           << << "x" >>, << "y" >>, << "x" >> >>, {}),
       Col(<< "q", "t", "y" >>, "float64",
           << 1, 4, 2 >>, {2}),
       Col(<< "c", "u", "s", "t", "_", "i", "d" >>, "int64",
           << 7, 7, 7 >>, {}) >>

PkTableNames ==
    { << "o", "r", "d", "e", "r", "s" >>,
      << "c", "u", "s", "t", "o", "m", "e", "r", "s" >>,
      << "C", "u", "s", "t" >> }

\* The first n rows of a column
Truncate(c, n) ==
    [name |-> c.name, dtype |-> c.dtype, vals |-> SubSeq(c.vals, 1, n),
     nulls |-> c.nulls \cap (1..n)]

\* Sequences without repetition of length 0..k over the set S
SeqsNoRep(S, k) ==
    UNION { { q \in [1..m -> S] : \A i, j \in 1..m : q[i] = q[j] => i = j }
            : m \in 0..k }

PkTables ==
    { Table(nm, n, [ k \in 1..Len(cs) |-> Truncate(PkPool[cs[k]], n) ]) :
        nm \in PkTableNames,
        n  \in 0..Min2(MaxPkRows, 3),
        cs \in SeqsNoRep(1..Len(PkPool), MaxPkCols) }

PkMethods == {"naming", "both", "content", "uniqueness", "all", "manual"}

\* The dicts given to detect_fks, as sequences of numbers of Catalog tables:
\* the keys of a dict differ
Collections ==
    { q \in SeqsNoRep(1..Len(Catalog), MaxTables) :
        \A i, j \in 1..Len(q) : Catalog[q[i]].name = Catalog[q[j]].name => i = j }

\* The function f on 1..n as a sequence
AsSeq(f) == f \o << >>

\* events(customer_id, name) with n rows: no key-like column
TEvents(n) ==
    Table(<< "e", "v", "e", "n", "t", "s" >>, n, <<
    Col(<< "c", "u", "s", "t", "o", "m", "e", "r", "_", "i", "d" >>,
        "int64", AsSeq([ i \in 1..n |-> 1 + (i % 3) ]), {}),
    Col(<< "n", "a", "m", "e" >>,
        "object", AsSeq([ i \in 1..n |-> << "a", "n", "n" >> ]), {}) >>)

\* wide(ship_date, customer_id, f3, f4, ...) with w columns and two rows:
\* f3, f4, ... are key-like
TWide(w) ==
    Table(<< "w", "i", "d", "e" >>, 2,
          AsSeq([ i \in 1..w |->
              IF i = 1
              THEN Col(<< "s", "h", "i", "p", "_", "d", "a", "t", "e" >>,
                       "datetime64", << 5, 5 >>, {})
              ELSE IF i = 2
              THEN Col(<< "c", "u", "s", "t", "o", "m", "e", "r", "_", "i", "d" >>,
                       "int64", << 1, 1 >>, {})
              ELSE Col(<< "f" >> \o ToDigits(i), "int64", << 1, 2 >>, {}) ]))

\* Tables at and just above the limits of line 326
LargeCatalog ==
    << TEvents(ROW_LIMIT), TEvents(ROW_LIMIT + 1),
       TWide(COL_LIMIT), TWide(COL_LIMIT + 1) >>

\* orders again, with the same columns and as many rows, and other customers
TOrdersEdited ==
    Table(<< "o", "r", "d", "e", "r", "s" >>, 3, <<
    Col(<< "o", "r", "d", "e", "r", "_", "i", "d" >>,
        "int64", << 1, 2, 3 >>, {}),
    Col(<< "c", "u", "s", "t", "o", "m", "e", "r", "_", "i", "d" >>,
        "int64", << 7, 8, 8 >>, {}),
    Col(<< "s", "h", "i", "p", "_", "d", "a", "t", "e" >>,
        "datetime64", << 5, 5, 6 >>, {2}) >>)

\* The tables by number: those of Catalog, then the large ones, then the
\* edited orders
AllTables == Catalog \o LargeCatalog \o << TOrdersEdited >>

Tabs(ids) == [ k \in 1..Len(ids) |-> AllTables[ids[k]] ]

Params(method, min_confidence, enable_flags) ==
    [method |-> method, min_confidence |-> min_confidence,
     enable_flags |-> enable_flags]

\* The (method, min_confidence, enable_flags) the engine is called with
FkParams ==
    { Params("both", "low", NoFlags),
      Params("both", "medium", NoFlags),
      Params("both", "high", NoFlags),
      Params("naming", "low", NoFlags),
      Params("content", "medium", NoFlags),
      Params("manual", "medium", NoFlags),
      Params("both", "low", GivenFlags({"naming", "null_pattern"})),
      Params("content", "low", GivenFlags({"value_overlap", "format"})) }

AllFlagSettings == [FlagNames -> BOOLEAN]

\* The methods, tiers and enable_flags of the calls that return at line 297
Confidences == {"low", "medium", "high"}

EarlyFlags ==
    { NoFlags, GivenFlags({}), GivenFlags({"naming"}),
      GivenFlags({"value_overlap", "format"}), GivenFlags(FlagNames) }

EarlyParams ==
    { Params(m, c, f) : m \in PkMethods, c \in Confidences, f \in EarlyFlags }

\* The largest number of rows of two unrelated tables
MaxUnrelatedRows == 2

\* products(sku, label): text columns, the labels of nullrows are missing
TProducts(n, nullrows) ==
    Table(<< "p", "r", "o", "d", "u", "c", "t", "s" >>, n, <<
    Col(<< "s", "k", "u" >>, "object",
        [ i \in 1..n |-> << "s" >> \o ToDigits(i) ], {}),
    Col(<< "l", "a", "b", "e", "l" >>, "object",
        [ i \in 1..n |-> << "x" >> ], nullrows \cap (1..n)) >>)

\* readings(level, taken): a numeric and a datetime column
TReadings(n, dtype) ==
    Table(<< "r", "e", "a", "d", "i", "n", "g", "s" >>, n, <<
    Col(<< "l", "e", "v", "e", "l" >>, dtype, [ i \in 1..n |-> 7 ], {}),
    Col(<< "t", "a", "k", "e", "n" >>, "datetime64",
        [ i \in 1..n |-> 5 + i ], {}) >>)

\* Dicts of two tables with unrelated names, no value in common and no
\* two columns of the same type class, in both orders of the keys
UnrelatedDicts ==
    UNION { { << TProducts(n1, nl), TReadings(n2, dt) >>,
              << TReadings(n2, dt), TProducts(n1, nl) >> } :
            n1 \in 0..MaxUnrelatedRows, n2 \in 0..MaxUnrelatedRows,
            nl \in { {}, {1} }, dt \in {"int64", "float64"} }

\* The largest number of rows of the tables whose null masks are compared
MaxNullRows == 3

\* A table of n rows with one text column whose rows nullrows are missing
TMasked(name, n, nullrows) ==
    Table(name, n,
          << Col(<< "u" >>, "object", [ i \in 1..n |-> << "x" >> ], nullrows) >>)

\* Pairs of such tables, of equal and of different lengths
MaskedPairs ==
    UNION { { << TMasked(<< "a" >>, n1, m1), TMasked(<< "b" >>, n2, m2) >> :
                m1 \in SUBSET (1..n1), m2 \in SUBSET (1..n2) } :
            n1 \in 0..MaxNullRows, n2 \in 0..MaxNullRows }

\* The longest name given to clean_name
MaxNameLen == 4

\* The characters of those names: letters of both cases, a digit, the
\* underscore, other ASCII characters and a letter outside ASCII (the one
\* character U+00E9, written EAcute)
EAcute == "e-acute"

NameChars == { "A", "z", "7", "_", " ", "-", EAcute }

Names == UNION { [1..n -> NameChars] : n \in 0..MaxNameLen }

\* The longest string given to _jaro_winkler
MaxJaroLen == 3

JaroStrings == UNION { [1..n -> {"a", "b", "c"}] : n \in 0..MaxJaroLen }

\* The (method, enable_flags) of the calls made once with each tier
TierSettings ==
    { << "both", NoFlags >>, << "content", NoFlags >>, << "naming", NoFlags >>,
      << "both", GivenFlags({"naming", "null_pattern"}) >>,
      << "content", GivenFlags({"value_overlap", "format"}) >> }

\* The signals dicts the scorer can build: at most one bucket of each
\* signal, in the order the signals are evaluated.
SignalChoices ==
    << { << >>, << Sig("naming_exact", 100) >>, << Sig("name_sim", 85) >>,
         << Sig("name_sim_weak", 72) >> },
       { << >>, << Sig("overlap_high", 98) >>, << Sig("overlap_medium", 80) >> },
       { << >>, << Sig("cardinality_match", 100) >> },
       { << >>, << Sig("format_match", 60) >> },
       { << >>, << Sig("dist_high", 90) >>, << Sig("dist_med", 75) >> },
       { << >>, << Sig("null_corr", 80) >> } >>

SignalDicts ==
    { a \o b \o c \o d \o e \o f :
        a \in SignalChoices[1], b \in SignalChoices[2], c \in SignalChoices[3],
        d \in SignalChoices[4], e \in SignalChoices[5], f \in SignalChoices[6] }

(***************************************************************************)
(* State                                                                    *)
(*   tables  the dict of tables the engine is called on                    *)
(*   calls   for each caller, its detect_fks call: the arguments, the      *)
(*           position in the loop, the locals results / seen / best and    *)
(*           the returned list                                             *)
(*   ret     the last call of a pure function and what it returned         *)
(***************************************************************************)
VARIABLES tables, calls, ret

vars == << tables, calls, ret >>

NoCall == [op |-> "none", done |-> FALSE]

(***************************************************************************)
(* Calls of the pure functions: ret holds the arguments of a call, and      *)
(* after the call what it returned.                                         *)
(***************************************************************************)
Pending(op) == ret.op = op /\ ~ret.done

InitCalls ==
    /\ tables = << >>
    /\ calls = [c \in Callers |-> IdleCall]
    /\ \/ \E a, b \in 1..Len(Catalog) :
            \E i \in 1..Len(Catalog[a].cols), j \in 1..Len(Catalog[b].cols) :
              \E flags \in AllFlagSettings :
                /\ a # b
                /\ ret = [op |-> "score_candidate", done |-> FALSE,
                          t1 |-> a, col1 |-> i, t2 |-> b, col2 |-> j,
                          flags |-> flags]
       \/ \E signals \in SignalDicts :
            ret = [op |-> "aggregate", done |-> FALSE, signals |-> signals]
       \/ \E score \in 0..1000 :
            ret = [op |-> "confidence", done |-> FALSE, score |-> score]
       \/ \E T \in PkTables, method \in PkMethods :
            ret = [op |-> "detect_pks", done |-> FALSE, table |-> T,
                   method |-> method]
       \/ \E ids \in Collections, prm \in FkParams :
            ret = [op |-> "detect_fks", done |-> FALSE, tables |-> ids,
                   params |-> prm]
       \/ \E pair \in MaskedPairs,
               on \in { {"null_pattern"}, {"null_pattern", "value_overlap"} } :
            ret = [op |-> "null_pattern", done |-> FALSE, t1 |-> pair[1],
                   t2 |-> pair[2], flags |-> GivenFlags(on).flags]
       \/ \E ids \in Collections, st \in TierSettings :
            ret = [op |-> "detect_fks_tiers", done |-> FALSE, tables |-> ids,
                   method |-> st[1], enable_flags |-> st[2]]
       \/ \E s1, s2 \in JaroStrings :
            ret = [op |-> "jaro_winkler", done |-> FALSE, s1 |-> s1, s2 |-> s2]
       \/ \E name \in Names :
            ret = [op |-> "clean_name", done |-> FALSE, name |-> name]
       \/ \E tabs \in UnrelatedDicts, prm \in FkParams \cup EarlyParams :
            ret = [op |-> "scenario_b", done |-> FALSE, tabs |-> tabs,
                   params |-> prm]

CallScoreCandidate ==
    /\ Pending("score_candidate")
    /\ ret' = [ret EXCEPT !.done = TRUE] @@
              [out |-> _score_candidate(Catalog[ret.t1], ret.col1,
                                        Catalog[ret.t2], ret.col2, ret.flags)]
    /\ UNCHANGED << tables, calls >>

CallAggregate ==
    /\ Pending("aggregate")
    /\ ret' = [ret EXCEPT !.done = TRUE] @@ [out |-> Aggregate(ret.signals)]
    /\ UNCHANGED << tables, calls >>

CallConfidence ==
    /\ Pending("confidence")
    /\ ret' = [ret EXCEPT !.done = TRUE] @@ [out |-> ConfidenceOf(ret.score)]
    /\ UNCHANGED << tables, calls >>

CallDetectPks ==
    /\ Pending("detect_pks")
    /\ ret' = [ret EXCEPT !.done = TRUE] @@
              [out |-> detect_pks(ret.table, ret.method)]
    /\ UNCHANGED << tables, calls >>

CallDetectFks ==
    /\ Pending("detect_fks")
    /\ ret' = [ret EXCEPT !.done = TRUE] @@
              [out |-> detect_fks(Tabs(ret.tables), ret.params)]
    /\ UNCHANGED << tables, calls >>

\* _null_pattern_correlation on the only columns of two tables, and the
\* scorer on the same pair
CallNullPattern ==
    /\ Pending("null_pattern")
    /\ ret' = [ret EXCEPT !.done = TRUE] @@
              [nr  |-> _null_pattern_correlation(ret.t1, ret.t1.cols[1],
                                                 ret.t2, ret.t2.cols[1]),
               out |-> _score_candidate(ret.t1, 1, ret.t2, 1, ret.flags)]
    /\ UNCHANGED << tables, calls >>

\* detect_fks on the same tables, method and flags, once with each
\* min_confidence
CallDetectFksTiers ==
    /\ Pending("detect_fks_tiers")
    /\ ret' = [ret EXCEPT !.done = TRUE] @@
              [out |-> [ c \in Confidences |->
                          detect_fks(Tabs(ret.tables),
                                     Params(ret.method, c, ret.enable_flags)) ]]
    /\ UNCHANGED << tables, calls >>

\* _jaro_winkler on two strings; jaro is its local of line 160 when the
\* strings differ and have a match
CallJaroWinkler ==
    /\ Pending("jaro_winkler")
    /\ ret' = [ret EXCEPT !.done = TRUE] @@
              [out  |-> _jaro_winkler(ret.s1, ret.s2),
               jaro |-> IF ret.s1 = ret.s2 \/ ret.s1 = << >> \/ ret.s2 = << >>
                        THEN [matches |-> 0, num |-> 0, den |-> 1]
                        ELSE JaroOf(ret.s1, ret.s2)]
    /\ UNCHANGED << tables, calls >>

\* clean_name on a name, and on what it returned
CallCleanName ==
    /\ Pending("clean_name")
    /\ ret' = [ret EXCEPT !.done = TRUE] @@
              [out   |-> clean_name(ret.name),
               again |-> clean_name(clean_name(ret.name))]
    /\ UNCHANGED << tables, calls >>

\* detect_fks on two unrelated tables
CallScenarioB ==
    /\ Pending("scenario_b")
    /\ ret' = [ret EXCEPT !.done = TRUE] @@
              [out |-> detect_fks(ret.tabs, ret.params)]
    /\ UNCHANGED << tables, calls >>

NextCalls ==
    \/ CallDetectFksTiers
    \/ CallJaroWinkler
    \/ CallCleanName
    \/ CallNullPattern
    \/ CallScenarioB
    \/ CallScoreCandidate
    \/ CallAggregate
    \/ CallConfidence
    \/ CallDetectPks
    \/ CallDetectFks

SpecCalls == InitCalls /\ [][NextCalls]_vars

\* A finished call of the function op
Returned(op) == ret.op = op /\ ret.done

(***************************************************************************)
(* detect_fks step by step                                                  *)
(***************************************************************************)
\* The flags and min_rank of the call of caller c (lines 299-300)
FlagsOf(cl) == _build_flags(cl.params.method, cl.params.enable_flags)

\* A min_rank that lets every tier through
NoMinRank(cl) == 0

\* Line 298: min_rank = CONF_RANK.get(min_confidence, 1)
MinRankOf(cl) == ConfRankGet(cl.params.min_confidence, 1)

TriplesOf(cl) == Triples(Tabs(tables), FlagsOf(cl))

\* One best dict for all calls: a call reads what any call has written
SharedBestRead(cs, c) ==
    [ k \in UNION { DOMAIN cs[d].best : d \in DOMAIN cs } |->
        LET vs == { cs[d].best[k] : d \in { e \in DOMAIN cs : k \in DOMAIN cs[e].best } }
        IN  CHOOSE v \in vs : \A u \in vs : v >= u ]

\* The best dict that the loop of caller c reads at line 364: its own local
BestReadBy(cs, c) == cs[c].best

\* Lines 296-315: the early return, or the locals of a new call
Start(c, prm) ==
    /\ calls[c].pc \in {"idle", "done"}
    /\ IF EarlyReturn(prm.method, Len(tables))
       THEN calls' = [calls EXCEPT ![c] =
                        [pc |-> "done", params |-> prm, pos |-> 0,
                         results |-> << >>, seen |-> {}, best |-> << >>,
                         ret |-> << >>]]
       ELSE LET acc == NewAccumulators(calls[c])
            IN  calls' = [calls EXCEPT ![c] =
                            [pc |-> "run", params |-> prm, pos |-> 1,
                             results |-> acc.results, seen |-> acc.seen,
                             best |-> acc.best, ret |-> << >>]]
    /\ UNCHANGED << tables, ret >>

\* The record of a call after a pass that left the accumulators acc
Advance(cl, acc) ==
    [cl EXCEPT !.pos = cl.pos + 1, !.results = acc.results,
               !.seen = acc.seen, !.best = acc.best]

\* One pass of the body of the loop over t2 (lines 328-379)
Step(c) ==
    /\ calls[c].pc = "run"
    /\ calls[c].pos <= Len(TriplesOf(calls[c]))
    /\ \E tr \in { TriplesOf(calls[c])[calls[c].pos] } :
          \E acc \in { FkStep(Tabs(tables), FlagsOf(calls[c]),
                               MinRankOf(calls[c]), tr,
                               [results |-> calls[c].results,
                                seen |-> calls[c].seen,
                                best |-> calls[c].best],
                               BestReadBy(calls, c)) } :
             calls' = [calls EXCEPT ![c] = Advance(calls[c], acc)]
    /\ UNCHANGED << tables, ret >>

\* Lines 381-382: sort and return
Finish(c) ==
    LET cl == calls[c]
    IN  /\ cl.pc = "run"
        /\ cl.pos > Len(TriplesOf(cl))
        /\ calls' = [calls EXCEPT ![c].pc = "done",
                                  ![c].ret = SortResults(cl.results)]
        /\ UNCHANGED << tables, ret >>

InitFk ==
    /\ tables \in Collections
    /\ calls = [c \in Callers |-> IdleCall]
    /\ ret = NoCall

\* One caller, one call after the other
Main == CHOOSE c \in Callers : \A d \in Callers : c <= d

\* A call with one of FkParams, or a call that returns at line 297 with any
\* of EarlyParams
StartMain ==
    \E prm \in FkParams \cup EarlyParams :
        /\ prm \in FkParams \/ EarlyReturn(prm.method, Len(tables))
        /\ Start(Main, prm)

StepMain == Step(Main)

FinishMain == Finish(Main)

NextFk ==
    \/ StartMain
    \/ StepMain
    \/ FinishMain

SpecFk == InitFk /\ [][NextFk]_vars

Spec == SpecFk

(***************************************************************************)
(* Several callers on the one engine object, their calls interleaved step  *)
(* by step or following one another                                         *)
(***************************************************************************)
\* orders/shipments/customers, orders/customers/clients, customers/orders,
\* customer/customers/clients, shipments/orders/clients, orders alone
SharedCollections ==
    { << 1, 5, 2 >>, << 1, 2, 3 >>, << 2, 1 >>, << 4, 2, 3 >>, << 5, 1, 3 >>,
      << 1 >> }

SharedParams ==
    { Params("both", "low", NoFlags),
      Params("both", "medium", NoFlags),
      Params("content", "high", NoFlags) }

InitShared ==
    /\ tables \in SharedCollections
    /\ calls = [c \in Callers |-> IdleCall]
    /\ ret = NoCall

StartAny == \E c \in Callers : \E prm \in SharedParams : Start(c, prm)

StepAny == \E c \in Callers : Step(c)

FinishAny == \E c \in Callers : Finish(c)

NextShared ==
    \/ StartAny
    \/ StepAny
    \/ FinishAny

SpecShared == InitShared /\ [][NextShared]_vars

(***************************************************************************)
(* detect_fks on tables at and above the limits of line 326                 *)
(***************************************************************************)
\* Dicts with events of 150000 and 150001 rows and wide of 300 and 301
\* columns, as numbers of AllTables
LargeCollections ==
    { << 6, 2 >>, << 7, 2 >>, << 7, 3 >>, << 8, 5 >>, << 9, 5 >>,
      << 5, 9 >>, << 9, 4 >>, << 7, 9 >>, << 7, 2, 8, 5 >> }

\* Settings that leave the signals computed on a sample or a histogram off
LargeParams ==
    { Params("both", "low", GivenFlags({"naming", "value_overlap", "cardinality"})),
      Params("both", "high", GivenFlags({"naming", "value_overlap"})),
      Params("naming", "low", NoFlags) }

InitLarge ==
    /\ tables \in LargeCollections
    /\ calls = [c \in Callers |-> IdleCall]
    /\ ret = NoCall

StartLarge == \E prm \in LargeParams : Start(Main, prm)

StepLarge == Step(Main)

FinishLarge == Finish(Main)

NextLarge ==
    \/ StartLarge
    \/ StepLarge
    \/ FinishLarge

SpecLarge == InitLarge /\ [][NextLarge]_vars

(***************************************************************************)
(* The session of app.py: the declared, inferred and manual relationships  *)
(* and their merge at every run of the script. ret holds the session       *)
(* state.                                                                   *)
(***************************************************************************)
\* (r["from_table"], r["from_col"], r["to_table"], r["to_col"])
RelKey4(r) == << r.from_table, r.from_col, r.to_table, r.to_col >>

\* (r["from_table"], r["to_table"])
TablePair(r) == << r.from_table, r.to_table >>

\* Lines 1411-1416: the schema relationships, then the database
\* constraints whose four names no schema relationship has
SchemaPlusDb(schema_rels, db_rels) ==
    schema_rels \o
        SelectSeq(db_rels,
                  LAMBDA r : RelKey4(r) \notin { RelKey4(x) : x \in Range(schema_rels) })

\* Inferred relationships dropped only when the declared one names the same
\* columns
FilteredByColumns(auto_rels, declared) ==
    SelectSeq(auto_rels,
              LAMBDA r : RelKey4(r) \notin { RelKey4(x) : x \in Range(declared) })

\* Lines 1417-1418: schema_pairs and filtered_auto
FilteredAuto(auto_rels, declared) ==
    SelectSeq(auto_rels,
              LAMBDA r : TablePair(r) \notin { TablePair(x) : x \in Range(declared) })

\* A merge that filters the manual relationships as it filters the inferred
MergeAllFiltered(schema_rels, db_rels, auto_rels, manual_rels) ==
    SchemaPlusDb(schema_rels, db_rels)
        \o FilteredAuto(auto_rels, SchemaPlusDb(schema_rels, db_rels))
        \o FilteredAuto(manual_rels, SchemaPlusDb(schema_rels, db_rels))

\* Line 1419: all_rels
MergeRels(schema_rels, db_rels, auto_rels, manual_rels) ==
    SchemaPlusDb(schema_rels, db_rels)
        \o FilteredAuto(auto_rels, SchemaPlusDb(schema_rels, db_rels))
        \o manual_rels

\* A relationship of a schema file (schema_parser.py 88-96) or of a
\* database constraint (app.py 1280-1285)
Declared(ft, fc, tt, tc, reason) ==
    [from_table |-> ft, from_col |-> fc, to_table |-> tt, to_col |-> tc,
     detected_by |-> "schema", confidence |-> "high", score |-> 1000,
     reasons |-> reason]

\* A relationship added in the sidebar (app.py 1358-1360)
Manual(ft, fc, tt, tc) ==
    [from_table |-> ft, from_col |-> fc, to_table |-> tt, to_col |-> tc,
     detected_by |-> "manual"]

NmOrders == << "o", "r", "d", "e", "r", "s" >>

NmCustomers == << "c", "u", "s", "t", "o", "m", "e", "r", "s" >>

NmShipments == << "s", "h", "i", "p", "m", "e", "n", "t", "s" >>

NmOrderId == << "o", "r", "d", "e", "r", "_", "i", "d" >>

NmCustomerId == << "c", "u", "s", "t", "o", "m", "e", "r", "_", "i", "d" >>

NmShipDate == << "s", "h", "i", "p", "_", "d", "a", "t", "e" >>

\* The relationship lists of the schema files that are uploaded
SchemaLists ==
    { << >>,
      << Declared(NmOrders, NmOrderId, NmShipments, NmOrderId, "declared in schema") >>,
      << Declared(NmOrders, NmCustomerId, NmCustomers, NmCustomerId, "declared in schema") >>,
      << Declared(NmOrders, NmOrderId, NmShipments, NmOrderId, "declared in schema"),
         Declared(NmOrders, NmCustomerId, NmCustomers, NmCustomerId, "declared in schema") >> }

\* The constraint lists of the databases that are imported
DbLists ==
    { << >>,
      << Declared(NmOrders, NmCustomerId, NmCustomers, NmCustomerId,
                  "database foreign key constraint") >>,
      << Declared(NmOrders, NmCustomerId, NmCustomers, NmCustomerId,
                  "database foreign key constraint"),
         Declared(NmShipments, NmOrderId, NmCustomers, NmCustomerId,
                  "database foreign key constraint") >> }

\* The relationships the user adds by hand
ManualChoices ==
    { Manual(NmOrders, NmCustomerId, NmCustomers, NmCustomerId),
      Manual(NmOrders, NmShipDate, NmShipments, NmShipDate),
      Manual(NmCustomers, NmCustomerId, NmShipments, NmOrderId) }

\* The largest number of manual relationships of a session
MaxManual == 2

\* What detect_fks returns (or the cache holds) at a run of the script:
\* its results on orders/customers, orders/shipments/customers and
\* orders/customers/clients, and the empty list
AutoLists ==
    { detect_fks(Tabs(ids), prm) :
        ids \in { << 1, 2 >>, << 1, 5, 2 >>, << 1, 2, 3 >> },
        prm \in { Params("both", "low", NoFlags), Params("manual", "low", NoFlags) } }

\* The session state after a run of the script that found the four lists
Session(schema_rels, db_rels, auto_rels, manual_rels) ==
    [op |-> "session", done |-> TRUE,
     schema_rels |-> schema_rels, db_schema_rels |-> db_rels,
     auto_rels |-> auto_rels, manual_rels |-> manual_rels,
     all_rels |-> MergeRels(schema_rels, db_rels, auto_rels, manual_rels)]

\* app.py 853-872 and the first run: no declared and no manual relationship
InitSession ==
    /\ tables = << >>
    /\ calls = [c \in Callers |-> IdleCall]
    /\ \E auto \in AutoLists : ret = Session(<< >>, << >>, auto, << >>)

\* app.py 1092-1103, then the run to line 1419
UploadSchema ==
    /\ \E srels \in SchemaLists, auto \in AutoLists :
          ret' = Session(srels, ret.db_schema_rels, auto, ret.manual_rels)
    /\ UNCHANGED << tables, calls >>

\* app.py 1277-1286, then the run to line 1419
ImportConstraints ==
    /\ \E db_rels \in DbLists, auto \in AutoLists :
          ret' = Session(ret.schema_rels, db_rels, auto, ret.manual_rels)
    /\ UNCHANGED << tables, calls >>

\* app.py 1357-1361, then the run to line 1419
AddManual ==
    /\ Len(ret.manual_rels) < MaxManual
    /\ \E r \in ManualChoices, auto \in AutoLists :
          ret' = Session(ret.schema_rels, ret.db_schema_rels, auto,
                         Append(ret.manual_rels, r))
    /\ UNCHANGED << tables, calls >>

\* app.py 1363-1365, then the run to line 1419
ClearManual ==
    /\ \E auto \in AutoLists :
          ret' = Session(ret.schema_rels, ret.db_schema_rels, auto, << >>)
    /\ UNCHANGED << tables, calls >>

NextSession ==
    \/ UploadSchema
    \/ ImportConstraints
    \/ AddManual
    \/ ClearManual

SpecSession == InitSession /\ [][NextSession]_vars

(***************************************************************************)
(* detect_fks on orders(customer_id, amount) and customers(customer_id,    *)
(* name): every customer_id of orders is one of customers, where it is     *)
(* unique and never null.                                                   *)
(***************************************************************************)
\* The largest number of rows of orders and of customers
MaxScenarioRows == 3

NmAmount == << "a", "m", "o", "u", "n", "t" >>

NmName == << "n", "a", "m", "e" >>

\* The amounts and names that the rows hold
AmountPool == {1, 50}

NmAnn == << "a", "n", "n" >>

NamePool == { NmAnn, << "b", "o", "b" >> }

\* The columns of n values of S, listed in ascending order: no step of
\* detect_fks depends on the order of the rows of tables this small
Ascending(n, S) ==
    { f \in [1..n -> S] : \A i \in 1..(n - 1) : f[i] <= f[i + 1] }

ScenarioOrders(cids, amounts, dtype) ==
    Table(NmOrders, Len(cids),
          << Col(NmCustomerId, "int64", cids, {}),
             Col(NmAmount, dtype, amounts, {}) >>)

ScenarioCustomers(names) ==
    Table(NmCustomers, Len(names),
          << Col(NmCustomerId, "int64", [ i \in 1..Len(names) |-> i ], {}),
             Col(NmName, "object", names, {}) >>)

\* Settings under which every signal is enabled
ScenarioParams ==
    { Params(m, c, f) :
        m \in {"both", "all"}, c \in Confidences, f \in {NoFlags} }
    \cup { Params("both", c, GivenFlags(FlagNames)) : c \in Confidences }

InitScenario ==
    /\ tables = << >>
    /\ calls = [c \in Callers |-> IdleCall]
    /\ \E n1, n2 \in 1..MaxScenarioRows :
          \E cids \in Ascending(n1, 1..n2), amounts \in Ascending(n1, AmountPool),
             names \in { [ i \in 1..n2 |-> IF i = 1 THEN NmAnn ELSE b ] :
                            b \in NamePool },
             dtype \in {"int64", "float64"},
             prm \in ScenarioParams, first \in {"orders", "customers"} :
             ret = [op |-> "scenario_a", done |-> FALSE,
                    orders |-> ScenarioOrders(cids, amounts, dtype),
                    customers |-> ScenarioCustomers(names),
                    first |-> first, params |-> prm]

\* The dict of the two tables in the order of its keys
ScenarioTabs(r) ==
    IF r.first = "orders" THEN << r.orders, r.customers >>
    ELSE << r.customers, r.orders >>

CallScenarioA ==
    /\ Pending("scenario_a")
    /\ ret' = [ret EXCEPT !.done = TRUE] @@
              [out |-> detect_fks(ScenarioTabs(ret), ret.params)]
    /\ UNCHANGED << tables, calls >>

NextScenario == CallScenarioA

SpecScenario == InitScenario /\ [][NextScenario]_vars

(***************************************************************************)
(* The fk_cache of app.py: tables is the dict st.session_state.tables as     *)
(* numbers of AllTables in insertion order, ret the rest of the session:     *)
(* the detection parameters, the cache and the auto_rels of the last run.    *)
(* st.session_state.dark_mode, which is part of the digest too, is left      *)
(* out: it only splits the entries of the cache further.                     *)
(***************************************************************************)
\* The files that are uploaded: orders, customers and the edited orders
UploadPool == { 1, 2, 10 }

\* enable_flags as lines 1310-1342 build it, with the checkboxes at their
\* defaults
AppFlags(method) ==
    GivenFlags((IF method \in {"naming", "both"} THEN {"naming"} ELSE {})
               \cup (IF method \notin {"manual", "naming"}
                     THEN {"value_overlap", "cardinality", "format", "distribution"}
                     ELSE {}))

AppParams(method, min_confidence) ==
    Params(method, min_confidence, AppFlags(method))

\* The settings of the sidebar that are tried
CacheParams ==
    { AppParams("both", "medium"), AppParams("content", "low") }

\* table_digest(tables, f"{method}/{min_confidence}/{flags_key}/..."): the
\* text that is hashed, md5 taken as injective
table_digest(tabs, prm) ==
    << [ k \in 1..Len(tabs) |->
            << tabs[k].name, NRows(tabs[k]), Len(tabs[k].cols) >> ],
       prm >>

\* Lines 1377-1407: one run of the main panel on the dict ids with the
\* cache fk_cache
MainPanel(ids, prm, fk_cache) ==
    IF ids = << >>
    THEN [op |-> "run", done |-> TRUE, params |-> prm, fk_cache |-> fk_cache,
          shown |-> FALSE, auto_rels |-> << >>]
    ELSE LET digest == table_digest(Tabs(ids), prm)
         IN  IF digest \notin DOMAIN fk_cache
             THEN [op |-> "run", done |-> TRUE, params |-> prm,
                   fk_cache |-> [ d \in DOMAIN fk_cache \cup {digest} |->
                                    IF d = digest
                                    THEN detect_fks(Tabs(ids), prm)
                                    ELSE fk_cache[d] ],
                   shown |-> TRUE, auto_rels |-> detect_fks(Tabs(ids), prm)]
             ELSE [op |-> "run", done |-> TRUE, params |-> prm,
                   fk_cache |-> fk_cache,
                   shown |-> TRUE, auto_rels |-> fk_cache[digest]]

\* st.session_state.tables[tname] = df (line 1076): a new key goes to the
\* end of the dict, an existing key keeps its place
Assigned(ids, id) ==
    IF \E k \in 1..Len(ids) : AllTables[ids[k]].name = AllTables[id].name
    THEN [ k \in 1..Len(ids) |->
            IF AllTables[ids[k]].name = AllTables[id].name THEN id ELSE ids[k] ]
    ELSE Append(ids, id)

\* del st.session_state.tables[t] (line 1150)
Deleted(ids, k) == SubSeq(ids, 1, k - 1) \o SubSeq(ids, k + 1, Len(ids))

\* Lines 853-860 and the first run of the script
InitCache ==
    /\ tables = << >>
    /\ calls = [c \in Callers |-> IdleCall]
    /\ ret = MainPanel(<< >>, AppParams("both", "medium"), << >>)

\* Lines 1073-1077: a file is uploaded, as a new table or in place of the
\* table of its name; then the run of the script
UploadTable ==
    /\ \E id \in UploadPool :
          /\ tables' = Assigned(tables, id)
          /\ ret' = MainPanel(Assigned(tables, id), ret.params, ret.fk_cache)
    /\ UNCHANGED calls

\* Lines 1146-1151: one table is removed
RemoveTable ==
    /\ \E k \in 1..Len(tables) :
          /\ tables' = Deleted(tables, k)
          /\ ret' = MainPanel(Deleted(tables, k), ret.params, ret.fk_cache)
    /\ UNCHANGED calls

\* Lines 1153-1158: Remove All empties the dict and the cache
RemoveAll ==
    /\ tables # << >>
    /\ tables' = << >>
    /\ ret' = MainPanel(<< >>, ret.params, << >>)
    /\ UNCHANGED calls

\* Lines 1297-1308: another method or min_confidence is chosen
ChangeParams ==
    /\ \E prm \in CacheParams \ {ret.params} :
          ret' = MainPanel(tables, prm, ret.fk_cache)
    /\ UNCHANGED << tables, calls >>

NextCache ==
    \/ UploadTable
    \/ RemoveTable
    \/ RemoveAll
    \/ ChangeParams

SpecCache == InitCache /\ [][NextCache]_vars

(***************************************************************************)
(* Properties                                                               *)
(***************************************************************************)
\* The column called nm of the table called tn of the dict tabs
ColumnOf(tabs, tn, nm) ==
    LET T == tabs[CHOOSE k \in 1..Len(tabs) : tabs[k].name = tn]
    IN  T.cols[CHOOSE i \in 1..Len(T.cols) : T.cols[i].name = nm]

\* numeric / datetime / string, read off the dtype
TypeClass(col) ==
    CASE col.dtype \in {"int64", "float64"} -> "numeric"
      [] col.dtype = "datetime64" -> "datetime"
      [] OTHER -> "string"

\* C1: the scorer returns none for every pair of columns whose type classes
\* differ, whatever the flags and even when the naming-exact rule matches;
\* and no relationship returned by detect_fks links two columns of
\* different type classes.
C1_TypeGate ==
    /\ Returned("score_candidate") =>
         LET col1 == Catalog[ret.t1].cols[ret.col1]
             col2 == Catalog[ret.t2].cols[ret.col2]
         IN  TypeClass(col1) # TypeClass(col2) => ~ret.out.ok
    /\ Returned("detect_fks") =>
         \A k \in 1..Len(ret.out) :
            LET r == ret.out[k]
            IN  TypeClass(ColumnOf(Tabs(ret.tables), r.from_table, r.from_col))
                  = TypeClass(ColumnOf(Tabs(ret.tables), r.to_table, r.to_col))

\* A scored pair of different type classes on which naming is enabled and
\* the naming-exact rule matches
C1_Witness ==
    /\ Returned("score_candidate")
    /\ ret.flags["naming"]
    /\ LET col1 == Catalog[ret.t1].cols[ret.col1]
           col2 == Catalog[ret.t2].cols[ret.col2]
       IN  /\ TypeClass(col1) # TypeClass(col2)
           /\ is_fk_for(clean_name(col1.name), clean_name(Catalog[ret.t2].name))
           /\ ~ret.out.ok

\* The signals dicts with exactly one fired bucket more than signals
OneMore(signals) ==
    { d \in SignalDicts :
        /\ Len(d) = Len(signals) + 1
        /\ Range(signals) \subseteq Range(d) }

\* C2: noisy-OR monotonicity: for every non-empty set of fired buckets the
\* scorer can build and every further bucket it can fire with them, the
\* composite score (rounded to 3 decimals, capped at 1.0) of the larger set
\* is at least the score of the smaller.
C2_Monotone ==
    (Returned("aggregate") /\ ret.signals # << >>) =>
        \A d \in OneMore(ret.signals) : Aggregate(d).score >= ret.out.score

\* A set of fired buckets whose score a further bucket raises
C2_Witness ==
    /\ Returned("aggregate") /\ ret.signals # << >>
    /\ \E d \in OneMore(ret.signals) : Aggregate(d).score > ret.out.score

\* The weight table as the specification states it, in hundredths
StatedWeight(b) ==
    CASE b = "naming_exact" -> 100 [] b = "cardinality_match" -> 95
      [] b = "overlap_high" -> 90  [] b = "name_sim" -> 60
      [] b = "overlap_medium" -> 55 [] b = "dist_high" -> 50
      [] b = "format_match" -> 40  [] b = "dist_med" -> 30
      [] b = "name_sim_weak" -> 25 [] b = "null_corr" -> 20

\* The product of (1 - w) over the fired buckets, as a fraction in lowest
\* terms
RECURSIVE StatedMiss(_)
StatedMiss(signals) ==
    IF signals = << >> THEN [num |-> 1, den |-> 1]
    ELSE LET p == StatedMiss(Tail(signals))
             n == p.num * (100 - StatedWeight(Head(signals).bucket))
             d == p.den * 100
             g == Gcd(d, n)
         IN  [num |-> n \div g, den |-> d \div g]

\* The result of the last call of the scorer or of its aggregation step
Scored ==
    /\ (Returned("aggregate") \/ Returned("score_candidate"))
    /\ ret.out.ok

\* C3 as stated: the composite score equals 1 - prod(1 - w) exactly
C3_ExactNoisyOr ==
    Scored =>
        LET m == StatedMiss(ret.out.signals)
        IN  ret.out.score * m.den = 1000 * (m.den - m.num)

\* C3: for every non-empty set of fired buckets the composite score is
\* 1 - prod(1 - w) over the fired buckets, w the fixed weight of the bucket
\* and never the measured value, rounded to three decimals (it differs from
\* the exact value by at most 0.0005); it lies in [0,1], and it is exactly
\* 1.0 when naming-exact fired.
C3_RoundedNoisyOr ==
    Scored =>
        LET m    == StatedMiss(ret.out.signals)
            diff == ret.out.score * m.den - 1000 * (m.den - m.num)
        IN  /\ 2 * diff <= m.den
            /\ -2 * diff <= m.den
            /\ ret.out.score \in 0..1000
            /\ (\E i \in 1..Len(ret.out.signals) :
                    ret.out.signals[i].bucket = "naming_exact")
                 => ret.out.score = 1000

\* A candidate of the catalog on which the format bucket fired, whose
\* measured value 0.6 is not its weight, and whose exact noisy-OR has more
\* than three decimals
C3_Witness ==
    /\ Returned("score_candidate") /\ ret.out.ok
    /\ \E i \in 1..Len(ret.out.signals) :
            /\ ret.out.signals[i].bucket = "format_match"
            /\ ret.out.signals[i].raw # StatedWeight("format_match")
    /\ LET m == StatedMiss(ret.out.signals)
       IN  ret.out.score * m.den # 1000 * (m.den - m.num)

\* high / medium / low by the inclusive thresholds 0.85 and 0.55
StatedTier(score) ==
    CASE score >= 850 -> "high"
      [] score >= 550 /\ score < 850 -> "medium"
      [] OTHER -> "low"

\* C4: the confidence tier is a function of the composite score alone, with
\* inclusive thresholds: high iff score >= 0.85, medium iff
\* 0.55 <= score < 0.85, low otherwise; a candidate on which only
\* overlap-medium fired has score 0.55 and tier medium.
C4_Tier ==
    /\ Returned("confidence") => ret.out = StatedTier(ret.score)
    /\ Scored => ret.out.confidence = StatedTier(ret.out.score)
    /\ (Returned("aggregate")
          /\ { ret.signals[i].bucket : i \in 1..Len(ret.signals) }
                = {"overlap_medium"})
         => ret.out.score = 550 /\ ret.out.confidence = "medium"

\* The tier of a score of exactly 0.85
C4_Witness ==
    /\ Returned("confidence") /\ ret.score = 850
    /\ ret.out = "high"

\* C5: detect_pks returns a list of length 0 or 1 for every table and mode.
C5_AtMostOneKey ==
    Returned("detect_pks") => Len(ret.out) \in {0, 1}

\* A table with two unique non-null columns, of which one is returned
C5_Witness ==
    /\ Returned("detect_pks")
    /\ Cardinality({ i \in 1..Len(ret.table.cols) :
                        IsKeyLike(ret.table, ret.table.cols[i]) }) >= 2
    /\ NRows(ret.table) > 0
    /\ Len(ret.out) = 1

\* The naming rule of the primary-key detector as the specification states
\* it, on canonical names
StatedPkName(c, t) ==
    \/ c = << "i", "d" >>
    \/ c = t \o << "_", "i", "d" >>
    \/ /\ Len(c) >= 3 /\ SubSeq(c, Len(c) - 2, Len(c)) = << "_", "i", "d" >>
       /\ LET stem == SubSeq(c, 1, Len(c) - 3)
          IN  Len(stem) <= Len(t) /\ SubSeq(t, 1, Len(stem)) = stem

\* The columns of T that match the stated naming rule
StatedNamed(T) ==
    { i \in 1..Len(T.cols) :
        StatedPkName(clean_name(T.cols[i].name), clean_name(T.name)) }

\* The columns of T that are fully non-null and have as many distinct
\* values as T has rows
StatedUnique(T) ==
    { i \in 1..Len(T.cols) :
        /\ T.cols[i].nulls \cap (1..T.n) = {}
        /\ Cardinality({ T.cols[i].vals[r] : r \in 1..T.n }) = T.n }

\* C6: when the mode includes naming and a column matches the naming rule,
\* detect_pks returns exactly the first such column in column order,
\* whether or not it is unique or free of nulls and whether or not another
\* column is a unique non-null key.
C6_NamingFirst ==
    (/\ Returned("detect_pks")
     /\ ret.method \in {"naming", "both"}
     /\ StatedNamed(ret.table) # {}) =>
        ret.out = << ret.table.cols[FirstOf(StatedNamed(ret.table))].name >>

\* The naming column returned although it is not unique and another column
\* is a unique non-null key
C6_Witness ==
    /\ Returned("detect_pks")
    /\ ret.method = "both"
    /\ StatedNamed(ret.table) # {}
    /\ FirstOf(StatedNamed(ret.table)) \notin StatedUnique(ret.table)
    /\ StatedUnique(ret.table) # {}
    /\ NRows(ret.table) > 0
    /\ ret.out = << ret.table.cols[FirstOf(StatedNamed(ret.table))].name >>

\* The canonical name ends in _id, _key, _no, _num or _code
StatedIdLike(c) ==
    \E suf \in { << "_", "i", "d" >>, << "_", "k", "e", "y" >>,
                 << "_", "n", "o" >>, << "_", "n", "u", "m" >>,
                 << "_", "c", "o", "d", "e" >> } :
        Len(c) >= Len(suf) /\ SubSeq(c, Len(c) - Len(suf) + 1, Len(c)) = suf

\* The naming step of detect_pks yields no column
NamingYieldsNone == ret.method \notin {"naming", "both"} \/ StatedNamed(ret.table) = {}

StatedRank(c) == CASE c = "low" -> 0 [] c = "medium" -> 1 [] c = "high" -> 2

\* The pass of the loop that the call cl makes at position k: the source
\* column, the target table, the best candidate of that table, and whether
\* it passes the confidence filter
PassAt(cl, k) ==
    LET tr == TriplesOf(cl)[k]
        T1 == Tabs(tables)[tr[1]]
        T2 == Tabs(tables)[tr[3]]
        br == BestFor(T1, tr[2], T2, FlagsOf(cl))
    IN  [from_table |-> T1.name,
         from_col   |-> T1.cols[tr[2]].name,
         to_table   |-> T2.name,
         key        |-> ColKey(T1, T1.cols[tr[2]]),
         score      |-> br.res.score,
         ok         |-> br.ok,
         confidence |-> br.res.confidence,
         passed     |-> br.ok /\ StatedRank(br.res.confidence)
                                    >= StatedRank(cl.params.min_confidence)]

\* The call of caller c makes one pass of the loop in this step
Passes(c) ==
    /\ calls[c].pc = "run" /\ calls'[c].pc = "run"
    /\ calls'[c].pos = calls[c].pos + 1

\* C8: for each source column the target tables are visited in table order
\* with a running best that is absent at first; a candidate that passed the
\* confidence filter is skipped exactly when a running best exists and
\* exceeds its score by more than 0.05, and otherwise it is accepted and the
\* running best becomes its score, the score of the most recently accepted
\* candidate; a skipped candidate leaves the running best unchanged.
C8_NearBest ==
    [][ \A c \in Callers :
          Passes(c) =>
            LET cl   == calls[c]
                nx   == calls'[c]
                trs  == TriplesOf(cl)
                ps   == PassAt(cl, cl.pos)
                over == /\ ps.key \in DOMAIN cl.best
                        /\ cl.best[ps.key] > ps.score + 50
            IN  /\ \A k \in 1..(cl.pos - 1) :
                     (trs[k][1] = trs[cl.pos][1] /\ trs[k][2] = trs[cl.pos][2])
                        => trs[k][3] < trs[cl.pos][3]
                /\ (\A k \in 1..Len(cl.results) :
                        ~(cl.results[k].from_table = ps.from_table
                            /\ cl.results[k].from_col = ps.from_col))
                     => ps.key \notin DOMAIN cl.best
                /\ ps.passed =>
                     IF over
                     THEN nx.results = cl.results /\ nx.best = cl.best
                     ELSE /\ Len(nx.results) = Len(cl.results) + 1
                          /\ SubSeq(nx.results, 1, Len(cl.results)) = cl.results
                          /\ nx.results[Len(nx.results)].from_table = ps.from_table
                          /\ nx.results[Len(nx.results)].from_col = ps.from_col
                          /\ nx.results[Len(nx.results)].to_table = ps.to_table
                          /\ nx.results[Len(nx.results)].score = ps.score
                          /\ DOMAIN nx.best = DOMAIN cl.best \cup {ps.key}
                          /\ nx.best[ps.key] = ps.score
                          /\ \A k \in DOMAIN cl.best \ {ps.key} :
                                nx.best[k] = cl.best[k]
      ]_vars

\* The pass just made met a candidate that passed the confidence filter and
\* was skipped because the running best exceeds its score by more than 0.05
C8_Witness ==
    /\ calls[Main].pc = "run" /\ calls[Main].pos > 1
    /\ LET cl == calls[Main]
           ps == PassAt(cl, cl.pos - 1)
       IN  /\ ps.passed
           /\ ps.key \in DOMAIN cl.best
           /\ cl.best[ps.key] > ps.score + 50
           /\ \A k \in 1..Len(cl.results) :
                ~(cl.results[k].from_table = ps.from_table
                    /\ cl.results[k].from_col = ps.from_col
                    /\ cl.results[k].to_table = ps.to_table)

\* C9: two calls of detect_fks on the same tables with the same method,
\* min_confidence and flags return the same ordered list, whatever calls
\* the engine object served before or between them; seen, best and results
\* are empty when the loop of a call begins.
C9_Deterministic ==
    /\ \A c, d \in Callers :
          (/\ calls[c].pc = "done" /\ calls[d].pc = "done"
           /\ calls[c].params = calls[d].params)
             => calls[c].ret = calls[d].ret
    /\ \A c \in Callers :
          (calls[c].pc = "run" /\ calls[c].pos = 1) =>
             /\ calls[c].results = << >>
             /\ calls[c].seen = {}
             /\ DOMAIN calls[c].best = {}

\* Two finished calls with the same arguments that returned the same list
\* of two relationships or more
C9_Witness ==
    \E c, d \in Callers :
        /\ c # d
        /\ calls[c].pc = "done" /\ calls[d].pc = "done"
        /\ calls[c].params = calls[d].params
        /\ Len(calls[c].ret) >= 2
        /\ calls[c].ret = calls[d].ret

\* C10: detect_fks calls that run at the same time on the one engine
\* object, on tables they only read, each return the list that the call
\* returns when it runs alone, under every interleaving of their passes.
C10_Isolated ==
    \A c \in Callers :
        calls[c].pc = "done" =>
            calls[c].ret = detect_fks(Tabs(tables), calls[c].params)

\* A call that finished with two relationships or more while another call,
\* with other arguments, is inside its loop and has written its best dict
C10_Witness ==
    \E c, d \in Callers :
        /\ calls[c].pc = "done" /\ Len(calls[c].ret) >= 2
        /\ calls[d].pc = "run" /\ calls[d].pos > 1
        /\ DOMAIN calls[d].best # {}
        /\ calls[d].params # calls[c].params

\* The number of the table called tn in the dict tabs
TableNo(tabs, tn) == CHOOSE k \in 1..Len(tabs) : tabs[k].name = tn

\* C11: the list returned by detect_fks is sorted by confidence tier
\* descending and, within a tier, by score descending: of two adjacent
\* entries a before b, tier(a) > tier(b), or the tiers are equal and
\* score(a) >= score(b).
C11_Sorted ==
    Returned("detect_fks") =>
        \A k \in 1..(Len(ret.out) - 1) :
            LET a == ret.out[k]
                b == ret.out[k + 1]
            IN  \/ StatedRank(a.confidence) > StatedRank(b.confidence)
                \/ /\ StatedRank(a.confidence) = StatedRank(b.confidence)
                   /\ a.score >= b.score

\* A returned list of two tiers or more in which an entry of a later
\* source table stands before an entry of an earlier one
C11_Witness ==
    /\ Returned("detect_fks")
    /\ \E k, l \in 1..Len(ret.out) :
          /\ k < l
          /\ ret.out[k].confidence # ret.out[l].confidence
    /\ \E k, l \in 1..Len(ret.out) :
          /\ k < l
          /\ TableNo(Tabs(ret.tables), ret.out[k].from_table)
                > TableNo(Tabs(ret.tables), ret.out[l].from_table)

\* C12: every relationship returned by detect_fks has a confidence tier at
\* or above min_confidence (low < medium < high); a best result of a
\* (T1, C1, T2) triple whose tier is below min_confidence is discarded
\* before the near-best filter: it adds nothing to results and leaves the
\* running best unchanged.
C12_ConfidenceFilter ==
    [][ \A c \in Callers :
          /\ Passes(c) =>
               LET cl == calls[c]
                   ps == PassAt(cl, cl.pos)
               IN  (/\ ps.ok
                    /\ StatedRank(ps.confidence)
                          < StatedRank(cl.params.min_confidence))
                      => /\ calls'[c].results = cl.results
                         /\ calls'[c].best = cl.best
          /\ (calls[c].pc = "run" /\ calls'[c].pc = "done") =>
               \A k \in 1..Len(calls'[c].ret) :
                  StatedRank(calls'[c].ret[k].confidence)
                     >= StatedRank(calls'[c].params.min_confidence)
      ]_vars

\* The pass just made found a best result below min_confidence for a source
\* column that has no running best, and it still has none
C12_Witness ==
    /\ calls[Main].pc = "run" /\ calls[Main].pos > 1
    /\ LET cl == calls[Main]
           ps == PassAt(cl, cl.pos - 1)
       IN  /\ ps.ok
           /\ StatedRank(ps.confidence) < StatedRank(cl.params.min_confidence)
           /\ ps.key \notin DOMAIN cl.best

\* What the scorer returns for the source column of the triple tr of the
\* call cl against each candidate target column, in candidate order, and
\* the earliest candidate of the highest score among those with a result
\* (0 when the scorer returns none for all of them)
ScoredAt(cl, k) ==
    LET tr      == TriplesOf(cl)[k]
        T1      == Tabs(tables)[tr[1]]
        T2      == Tabs(tables)[tr[3]]
        targets == TargetCols(T1, T2)
        res     == [ j \in 1..Len(targets) |->
                       _score_candidate(T1, tr[2], T2, targets[j], FlagsOf(cl)) ]
        scored  == { j \in 1..Len(targets) : res[j].ok }
        top     == { j \in scored : \A i \in scored : res[j].score >= res[i].score }
    IN  [targets |-> targets,
         res     |-> res,
         top     |-> top,
         first   |-> IF top = {} THEN 0
                     ELSE CHOOSE j \in top : \A i \in top : j <= i,
         T2      |-> T2,
         best    |-> BestFor(T1, tr[2], T2, FlagsOf(cl))]

\* C13: for each (T1, C1, T2) triple detect_fks keeps a single target
\* column: the candidate of T2 with the highest composite score among those
\* the scorer returned a result for, the earliest in candidate order when
\* several share that score; when the scorer returns none for every
\* candidate the triple yields nothing.
C13_BestTarget ==
    [][ \A c \in Callers :
          Passes(c) =>
            LET cl == calls[c]
                nx == calls'[c]
                sc == ScoredAt(cl, cl.pos)
                ps == PassAt(cl, cl.pos)
            IN  /\ IF sc.first = 0
                   THEN ~sc.best.ok /\ nx.results = cl.results
                   ELSE /\ sc.best.ok
                        /\ sc.best.to_col = sc.targets[sc.first]
                        /\ sc.best.res = sc.res[sc.first]
                        /\ Len(nx.results) > Len(cl.results) =>
                             LET r == nx.results[Len(nx.results)]
                             IN  /\ r.to_col = sc.T2.cols[sc.targets[sc.first]].name
                                 /\ r.score = sc.res[sc.first].score
                /\ \A k, l \in 1..Len(nx.results) :
                      (/\ nx.results[k].from_table = nx.results[l].from_table
                       /\ nx.results[k].from_col = nx.results[l].from_col
                       /\ nx.results[k].to_table = nx.results[l].to_table)
                         => k = l
      ]_vars

\* The pass just made scored two candidates or more with the same highest
\* score, and the relationship it added names the earliest of them
C13_Witness ==
    /\ calls[Main].pc = "run" /\ calls[Main].pos > 1
    /\ LET cl == calls[Main]
           sc == ScoredAt(cl, cl.pos - 1)
           ps == PassAt(cl, cl.pos - 1)
       IN  /\ Cardinality(sc.top) >= 2
           /\ cl.results # << >>
           /\ LET r == cl.results[Len(cl.results)]
              IN  /\ r.from_table = ps.from_table
                  /\ r.from_col = ps.from_col
                  /\ r.to_table = ps.to_table
                  /\ r.to_col = sc.T2.cols[sc.targets[sc.first]].name

\* The column is key-like in T: T has a row at least, the column holds no
\* null and as many distinct values as T has rows
StatedKeyLike(T, col) ==
    /\ T.n >= 1
    /\ col.nulls = {}
    /\ Cardinality({ col.vals[i] : i \in 1..T.n }) = T.n

\* The table called tn of the dict tabs
TableOf(tabs, tn) == tabs[TableNo(tabs, tn)]

\* C14: a column that is key-like in its table T1 is never the source
\* column of a relationship returned by detect_fks.
C14_NoKeySource ==
    Returned("detect_fks") =>
        \A k \in 1..Len(ret.out) :
            LET r == ret.out[k]
            IN  ~StatedKeyLike(TableOf(Tabs(ret.tables), r.from_table),
                               ColumnOf(Tabs(ret.tables), r.from_table, r.from_col))

\* A returned list with a relationship out of a table that has a key-like
\* column for which another table holds a candidate that passes the
\* confidence filter
C14_Witness ==
    /\ Returned("detect_fks")
    /\ \E k \in 1..Len(ret.out), b \in 1..Len(ret.tables) :
          LET tabs == Tabs(ret.tables)
              a    == TableNo(tabs, ret.out[k].from_table)
          IN  /\ a # b
              /\ \E i \in 1..Len(tabs[a].cols) :
                    /\ StatedKeyLike(tabs[a], tabs[a].cols[i])
                    /\ LET br == BestFor(tabs[a], i, tabs[b],
                                         _build_flags(ret.params.method,
                                                      ret.params.enable_flags))
                       IN  /\ br.ok
                           /\ StatedRank(br.res.confidence)
                                 >= StatedRank(ret.params.min_confidence)

\* The numbers of the key-like columns of T, in column order
StatedKeyCols(T) ==
    SelectSeq([ i \in 1..Len(T.cols) |-> i ],
              LAMBDA i : StatedKeyLike(T, T.cols[i]))

StatedKeyNamed(c) ==
    \/ \E k \in 1..(Len(c) - 2) : SubSeq(c, k, k + 2) = << "_", "i", "d" >>
    \/ \E k \in 1..(Len(c) - 3) : SubSeq(c, k, k + 3) = << "_", "k", "e", "y" >>
    \/ Len(c) >= 2 /\ SubSeq(c, Len(c) - 1, Len(c)) = << "i", "d" >>
    \/ Len(c) >= 3 /\ SubSeq(c, Len(c) - 2, Len(c)) = << "k", "e", "y" >>

\* More than 150,000 rows or more than 300 columns
StatedLarge(T) == T.n > 150000 \/ Len(T.cols) > 300

\* The candidates in T2 when no restriction applies: its key-like columns
\* when it has any, else all its columns
StatedCandidates(T2) ==
    IF StatedKeyCols(T2) # << >> THEN StatedKeyCols(T2)
    ELSE [ i \in 1..Len(T2.cols) |-> i ]

\* C16: when T1 has more than 150,000 rows or more than 300 columns, the
\* candidates in every T2 are restricted to the columns whose canonical name
\* matches the id/key-like pattern, so every relationship returned with that
\* T1 as source has such a to_col; a T1 of exactly 150,000 rows and at most
\* 300 columns is not restricted.
C16_CostBound ==
    calls[Main].pc = "done" =>
        /\ \A k \in 1..Len(calls[Main].ret) :
              StatedLarge(TableOf(Tabs(tables), calls[Main].ret[k].from_table))
                 => StatedKeyNamed(clean_name(calls[Main].ret[k].to_col))
        /\ \A a, b \in 1..Len(tables) :
              a # b =>
                 TargetCols(Tabs(tables)[a], Tabs(tables)[b])
                    = IF StatedLarge(Tabs(tables)[a])
                      THEN SelectSeq(StatedCandidates(Tabs(tables)[b]),
                                     LAMBDA j : StatedKeyNamed(
                                        clean_name(Tabs(tables)[b].cols[j].name)))
                      ELSE StatedCandidates(Tabs(tables)[b])

\* A finished call that returned a relationship out of a table of 150,001
\* rows, for one column of which an unrestricted candidate of another name
\* scores, and a relationship out of a table of exactly 300 columns into a
\* column whose name does not match the pattern
C16_Witness ==
    /\ calls[Main].pc = "done"
    /\ \E k \in 1..Len(calls[Main].ret) :
          /\ TableOf(Tabs(tables), calls[Main].ret[k].from_table).n = 150001
          /\ StatedKeyNamed(clean_name(calls[Main].ret[k].to_col))
    /\ \E a, b \in 1..Len(tables) :
          /\ a # b
          /\ Tabs(tables)[a].n = 150001
          /\ \E i \in 1..Len(Tabs(tables)[a].cols) :
                \E j \in Range(StatedCandidates(Tabs(tables)[b])) :
                   /\ ~StatedKeyNamed(clean_name(Tabs(tables)[b].cols[j].name))
                   /\ _score_candidate(Tabs(tables)[a], i, Tabs(tables)[b], j,
                                       FlagsOf(calls[Main])).ok
    /\ \E k \in 1..Len(calls[Main].ret) :
          /\ Len(TableOf(Tabs(tables), calls[Main].ret[k].from_table).cols) = 300
          /\ ~StatedKeyNamed(clean_name(calls[Main].ret[k].to_col))

\* C17: a call of detect_fks with method "manual", or on fewer than two
\* tables, returns the empty list whatever min_confidence and enable_flags
\* are, and has made no pass of the scan: it is finished as soon as it has
\* started.
C17_EarlyReturn ==
    (/\ calls[Main].pc # "idle"
     /\ calls[Main].params.method = "manual" \/ Len(tables) < 2)
        => /\ calls[Main].pc = "done"
           /\ calls[Main].ret = << >>
           /\ calls[Main].pos = 0
           /\ calls[Main].results = << >>

\* A finished manual call with min_confidence "high" and every flag given
\* as on, over tables on which method "both" returns a relationship
C17_Witness ==
    /\ calls[Main].pc = "done"
    /\ calls[Main].params = Params("manual", "high", GivenFlags(FlagNames))
    /\ Len(tables) >= 2
    /\ detect_fks(Tabs(tables), Params("both", "high", GivenFlags(FlagNames))) # << >>

\* The relationships of the merged list by origin
IsInferred(r) == r.detected_by \notin {"schema", "manual"}

\* The ordered table pairs that a schema relationship or a database
\* constraint of the session declares
DeclaredPairs ==
    { << r.from_table, r.to_table >> :
        r \in Range(ret.schema_rels) \cup Range(ret.db_schema_rels) }

\* C18: when a schema relationship or a database constraint exists for an
\* ordered (source table, target table) pair, the merged list holds no
\* inferred relationship of that pair, whatever its columns; the other
\* inferred relationships are all in the merged list, unchanged and in the
\* order detect_fks gave them.
C18_DeclaredPrecedence ==
    ret.op = "session" =>
        /\ \A k \in 1..Len(ret.all_rels) :
              IsInferred(ret.all_rels[k]) =>
                 << ret.all_rels[k].from_table, ret.all_rels[k].to_table >>
                    \notin DeclaredPairs
        /\ SelectSeq(ret.all_rels, IsInferred)
              = SelectSeq(ret.auto_rels,
                          LAMBDA r : << r.from_table, r.to_table >> \notin DeclaredPairs)

\* A merge in which an inferred relationship was dropped for a declared one
\* of the same tables and other columns, and another inferred one was kept
C18_Witness ==
    /\ ret.op = "session"
    /\ \E i \in 1..Len(ret.auto_rels), d \in Range(ret.schema_rels) :
          /\ d.from_table = ret.auto_rels[i].from_table
          /\ d.to_table = ret.auto_rels[i].to_table
          /\ d.from_col # ret.auto_rels[i].from_col
          /\ \A k \in 1..Len(ret.all_rels) : ret.all_rels[k] # ret.auto_rels[i]
    /\ \E k \in 1..Len(ret.all_rels) : IsInferred(ret.all_rels[k])

\* C19: the merge removes no manual relationship: the merged list ends with
\* the manual relationships, all of them and in the order they were added,
\* also when a declared relationship has the same tables or columns, and
\* everything before them is declared or inferred.
C19_ManualKept ==
    ret.op = "session" =>
        /\ Len(ret.all_rels) >= Len(ret.manual_rels)
        /\ SubSeq(ret.all_rels,
                  Len(ret.all_rels) - Len(ret.manual_rels) + 1,
                  Len(ret.all_rels)) = ret.manual_rels
        /\ \A k \in 1..(Len(ret.all_rels) - Len(ret.manual_rels)) :
              ret.all_rels[k].detected_by # "manual"

\* A merged list with a declared relationship, then an inferred one, then
\* two manual ones, one of them with the four names of the declared one
C19_Witness ==
    /\ ret.op = "session"
    /\ Len(ret.manual_rels) = 2
    /\ \E m \in Range(ret.manual_rels), d \in Range(ret.schema_rels) :
          << m.from_table, m.from_col, m.to_table, m.to_col >>
             = << d.from_table, d.from_col, d.to_table, d.to_col >>
    /\ \E i, j \in 1..(Len(ret.all_rels) - 2) :
          /\ i < j
          /\ ret.all_rels[i].detected_by = "schema"
          /\ IsInferred(ret.all_rels[j])

\* The signal labelled naming is among the fired signals of relationship r
NamingFired(r) ==
    \E k \in 1..Len(r.signals) : LABEL_MAP[r.signals[k].bucket] = "naming"

\* orders.customer_id -> customers.customer_id
IsScenarioLink(r) ==
    /\ r.from_table = NmOrders /\ r.from_col = NmCustomerId
    /\ r.to_table = NmCustomers /\ r.to_col = NmCustomerId

RepeatedCustomer(T) ==
    \E i, j \in 1..T.n : i # j /\ T.cols[1].vals[i] = T.cols[1].vals[j]

\* The positions of the result that hold orders.customer_id ->
\* customers.customer_id
ScenarioLinks(out) == { k \in 1..Len(out) : IsScenarioLink(out[k]) }

\* orders.amount -> customers.customer_id
IsAmountLink(r) ==
    /\ r.from_table = NmOrders /\ r.from_col = NmAmount
    /\ r.to_table = NmCustomers /\ r.to_col = NmCustomerId

StatedNoSignal(T1, col1, T2, col2, flags) ==
    /\ NamingSignals(col1, T2, col2, flags) = << >>
    /\ OverlapSignals(T1, col1, T2, col2, flags) = << >>
    /\ CardinalitySignals(T1, col1, T2, col2, flags) = << >>
    /\ FormatSignals(T1, col1, T2, col2, flags) = << >>
    /\ DistributionSignals(T1, col1, T2, col2, flags) = << >>
    /\ NullPatternSignals(T1, col1, T2, col2, flags) = << >>

\* C21: the scorer returns none for a column pair on which no enabled signal
\* fires, and for an empty signals dict; no relationship returned by
\* detect_fks links such a pair; and detect_fks returns the empty list for
\* two tables with unrelated names, disjoint values and different type
\* classes.
C21_NoSignalNoResult ==
    /\ Returned("score_candidate") =>
         (StatedNoSignal(Catalog[ret.t1], Catalog[ret.t1].cols[ret.col1],
                         Catalog[ret.t2], Catalog[ret.t2].cols[ret.col2],
                         ret.flags)
            => ~ret.out.ok)
    /\ Returned("aggregate") => (ret.signals = << >> => ~ret.out.ok)
    /\ Returned("detect_fks") =>
         \A k \in 1..Len(ret.out) :
            LET r == ret.out[k]
                tabs == Tabs(ret.tables)
            IN  ~StatedNoSignal(TableOf(tabs, r.from_table),
                                ColumnOf(tabs, r.from_table, r.from_col),
                                TableOf(tabs, r.to_table),
                                ColumnOf(tabs, r.to_table, r.to_col),
                                _build_flags(ret.params.method,
                                             ret.params.enable_flags))
    /\ Returned("scenario_b") => ret.out = << >>

\* A scored pair of columns of the same type class on which every signal
\* was enabled and none fired
C21_Witness ==
    /\ Returned("score_candidate")
    /\ \A f \in FlagNames : ret.flags[f]
    /\ TypeClass(Catalog[ret.t1].cols[ret.col1])
         = TypeClass(Catalog[ret.t2].cols[ret.col2])
    /\ StatedNoSignal(Catalog[ret.t1], Catalog[ret.t1].cols[ret.col1],
                      Catalog[ret.t2], Catalog[ret.t2].cols[ret.col2],
                      ret.flags)
    /\ ~ret.out.ok

\* The category of a bucket
StatedLabel(b) ==
    CASE b = "naming_exact" -> "naming"
      [] b \in {"name_sim", "name_sim_weak"} -> "name_similarity"
      [] b \in {"overlap_high", "overlap_medium"} -> "value_overlap"
      [] b = "cardinality_match" -> "cardinality"
      [] b = "format_match" -> "format"
      [] b \in {"dist_high", "dist_med"} -> "distribution"
      [] b = "null_corr" -> "null_pattern"

\* The label stated for a non-empty signals dict: the category of the
\* first bucket, in firing order, that no other bucket outweighs
StatedOrigin(signals) ==
    LET heaviest == { i \in 1..Len(signals) :
                        \A j \in 1..Len(signals) :
                            StatedWeight(signals[j].bucket)
                                <= StatedWeight(signals[i].bucket) }
        first == CHOOSE i \in heaviest : \A j \in heaviest : i <= j
    IN  StatedLabel(signals[first].bucket)

\* C22: detected_by is the category of the fired bucket of the highest
\* fixed weight, the first such bucket in firing order when weights tie:
\* for the result built from a signals dict, for the result of the scorer
\* and for every relationship returned by detect_fks.
C22_OriginLabel ==
    /\ (Returned("aggregate") /\ ret.out.ok) =>
         ret.out.detected_by = StatedOrigin(ret.signals)
    /\ (Returned("score_candidate") /\ ret.out.ok) =>
         ret.out.detected_by = StatedOrigin(ret.out.signals)
    /\ Returned("detect_fks") =>
         \A k \in 1..Len(ret.out) :
            ret.out[k].detected_by = StatedOrigin(ret.out[k].signals)

\* A result whose label is not the category of the bucket that fired
\* first
C22_Witness ==
    /\ Returned("score_candidate")
    /\ ret.out.ok
    /\ Len(ret.out.signals) >= 2
    /\ ret.out.detected_by # StatedLabel(ret.out.signals[1].bucket)

\* The 0/1 null indicator of row i of a column
StatedMask(col, i) == IF i \in col.nulls THEN 1 ELSE 0

\* The sum of f over 1..n
RECURSIVE StatedSum(_, _)
StatedSum(f, n) == IF n = 0 THEN 0 ELSE f[n] + StatedSum(f, n - 1)

\* n * sum(x * y) - sum(x) * sum(y) for the masks x and y of two columns
\* of n rows
StatedCov(c1, c2, n) ==
    n * StatedSum([ i \in 1..n |-> StatedMask(c1, i) * StatedMask(c2, i) ], n)
      - StatedSum([ i \in 1..n |-> StatedMask(c1, i) ], n)
          * StatedSum([ i \in 1..n |-> StatedMask(c2, i) ], n)

\* Pearson's correlation of the null masks is defined, and at least 0.80:
\* both masks vary over the same rows, the covariance is positive and
\* cov^2 >= 0.64 * var1 * var2
StatedNullCorrFires(T1, c1, T2, c2) ==
    /\ T1.n = T2.n
    /\ \E i, j \in 1..T1.n : StatedMask(c1, i) # StatedMask(c1, j)
    /\ \E i, j \in 1..T2.n : StatedMask(c2, i) # StatedMask(c2, j)
    /\ StatedCov(c1, c2, T1.n) > 0
    /\ 100 * StatedCov(c1, c2, T1.n) * StatedCov(c1, c2, T1.n)
         >= 64 * StatedCov(c1, c1, T1.n) * StatedCov(c2, c2, T1.n)

\* The bucket null_corr is among the fired signals of a result
NullCorrFired(out) ==
    out.ok /\ \E k \in 1..Len(out.signals) : out.signals[k].bucket = "null_corr"

\* C23: the null_corr bucket fires exactly when the null-pattern signal is
\* enabled, the two tables have equal row counts and Pearson's correlation
\* of the two null masks is defined and at least 0.80; when the row counts
\* differ, a mask has zero variance or the computation fails, the
\* correlation is taken as 0, nothing is raised and the scorer goes on to
\* its result with the other signals.
C23_NullPattern ==
    /\ Returned("null_pattern") =>
         /\ ret.nr.zero \/ (ret.t1.n = ret.t2.n /\ ret.t1.n >= 2)
         /\ NullCorrFired(ret.out)
              <=> StatedNullCorrFires(ret.t1, ret.t1.cols[1], ret.t2, ret.t2.cols[1])
         /\ (ret.flags["value_overlap"] /\ ret.t1.n > 0 /\ ret.t2.n > 0
              /\ ret.t1.cols[1].nulls # 1..ret.t1.n
              /\ ret.t2.cols[1].nulls # 1..ret.t2.n)
              => /\ ret.out.ok
                 /\ ret.out.signals[1].bucket = "overlap_high"
    /\ (Returned("score_candidate")
        /\ TypeClass(Catalog[ret.t1].cols[ret.col1])
             = TypeClass(Catalog[ret.t2].cols[ret.col2])) =>
         (NullCorrFired(ret.out)
            <=> /\ ret.flags["null_pattern"]
                /\ StatedNullCorrFires(Catalog[ret.t1], Catalog[ret.t1].cols[ret.col1],
                                       Catalog[ret.t2], Catalog[ret.t2].cols[ret.col2]))

\* A scored pair of tables of equal length of which one mask has zero
\* variance: the correlation was taken as 0 and the scorer returned the
\* result of the overlap signal alone
C23_Witness ==
    /\ Returned("null_pattern")
    /\ ret.t1.n = ret.t2.n /\ ret.t1.n >= 2
    /\ ret.t1.cols[1].nulls = {} /\ ret.t2.cols[1].nulls # {}
    /\ ret.nr.zero
    /\ ret.out.ok
    /\ ~NullCorrFired(ret.out)

\* A letter or a digit, and its lowercase form
StatedAlnum(c) ==
    c \in { "A", "z", "7" }

StatedLower(c) == IF c = "A" THEN "a" ELSE c

\* The runs of letters and digits of x from position i on, lowercased and
\* joined by single underscores; word is the run being read and done the
\* runs already joined
RECURSIVE StatedJoin(_, _, _, _)
StatedJoin(x, i, word, done) ==
    LET joined == IF word = << >> THEN done
                  ELSE IF done = << >> THEN word
                  ELSE done \o << "_" >> \o word
    IN  IF i > Len(x) THEN joined
        ELSE IF StatedAlnum(x[i])
        THEN StatedJoin(x, i + 1, word \o << StatedLower(x[i]) >>, done)
        ELSE StatedJoin(x, i + 1, << >>, joined)

\* C24: clean_name returns the lowercased name with every run of
\* non-alphanumeric characters replaced by one underscore and the
\* underscores at both ends removed: the result holds only a-z, 0-9 and
\* underscore, no two adjacent underscores and no underscore at either end;
\* names without a letter or digit give the empty string; and clean_name
\* applied to its result returns it unchanged.
C24_CleanName ==
    Returned("clean_name") =>
        /\ ret.out = StatedJoin(ret.name, 1, << >>, << >>)
        /\ \A i \in 1..Len(ret.out) :
              ret.out[i] \in { "a", "z", "7", "_" }
        /\ \A i \in 1..(Len(ret.out) - 1) :
              ~(ret.out[i] = "_" /\ ret.out[i + 1] = "_")
        /\ ret.out # << >> => (ret.out[1] # "_" /\ ret.out[Len(ret.out)] # "_")
        /\ (\A i \in 1..Len(ret.name) : ~StatedAlnum(ret.name[i])) => ret.out = << >>
        /\ ret.again = ret.out

\* A name of an uppercase letter followed by a run of three characters that
\* are not a-z or 0-9 after lowercasing has been cleaned
C24_Witness ==
    /\ Returned("clean_name")
    /\ ret.name = << "A", " ", "-", EAcute >>
    /\ ret.out = << "a" >>

\* The length of the common prefix of s1 and s2: the number of leading
\* characters that match before the first mismatch, capped at 4
StatedCommonPrefix(s1, s2) ==
    LET m == Min2(4, Min2(Len(s1), Len(s2)))
        same == { p \in 0..m : \A i \in 1..p : s1[i] = s2[i] }
    IN  CHOOSE p \in same : \A q \in same : q <= p

\* C25: _jaro_winkler returns jaro + 0.1 * p * (1 - jaro) where p is the
\* length of the common prefix of the two strings capped at 4; identical
\* strings score 1.0 and a pair with one empty string scores 0.0.
C25_WinklerBoost ==
    Returned("jaro_winkler") =>
        /\ ret.s1 = ret.s2 => ret.out.num = ret.out.den
        /\ (ret.s1 # ret.s2 /\ (ret.s1 = << >> \/ ret.s2 = << >>)) => ret.out.num = 0
        /\ ret.jaro.matches > 0 =>
              ret.out.num * 10 * ret.jaro.den
                = (10 * ret.jaro.num
                     + StatedCommonPrefix(ret.s1, ret.s2) * (ret.jaro.den - ret.jaro.num))
                  * ret.out.den

\* The passes of the loop of the call cl, in loop order
AllPasses(cl) == AsSeq([ k \in 1..Len(TriplesOf(cl)) |-> PassAt(cl, k) ])

\* Pass j and pass k of ps have the same source column
SameSource(ps, j, k) ==
    ps[j].from_table = ps[k].from_table /\ ps[j].from_col = ps[k].from_col

\* The candidate of pass k of ps is among the accepted relationships rs
AcceptedIn(rs, ps, k) ==
    \E n \in 1..Len(rs) :
        /\ rs[n].from_table = ps[k].from_table
        /\ rs[n].from_col = ps[k].from_col
        /\ rs[n].to_table = ps[k].to_table
        /\ rs[n].score = ps[k].score

\* C26: when a call of detect_fks has returned, every source column with a
\* per-table best result that passed the confidence filter has a result of
\* the maximum score among those in the returned list; and a candidate that
\* passed the filter and whose score is at least every score accepted
\* earlier for its source column was accepted.
C26_MaxKept ==
    (calls[Main].pc = "done"
       /\ ~EarlyReturn(calls[Main].params.method, Len(tables))) =>
        \A ps \in { AllPasses(calls[Main]) } :
            \A k \in 1..Len(ps) :
                ps[k].passed =>
                    /\ \E m \in 1..Len(ps) :
                          /\ SameSource(ps, m, k) /\ ps[m].passed
                          /\ \A j \in 1..Len(ps) :
                                (SameSource(ps, j, k) /\ ps[j].passed)
                                    => ps[j].score <= ps[m].score
                          /\ AcceptedIn(calls[Main].ret, ps, m)
                    /\ (\A j \in 1..(k - 1) :
                            (SameSource(ps, j, k) /\ ps[j].passed
                               /\ AcceptedIn(calls[Main].results, ps, j))
                                => ps[j].score <= ps[k].score)
                         => AcceptedIn(calls[Main].ret, ps, k)

\* A returned call that accepted, for one source column, a candidate of a
\* higher score after one of a lower score
C26_Witness ==
    /\ calls[Main].pc = "done"
    /\ \E ps \in { AllPasses(calls[Main]) } :
         \E j, k \in 1..Len(ps) :
            /\ j < k
            /\ SameSource(ps, j, k)
            /\ ps[j].passed /\ ps[k].passed
            /\ ps[j].score < ps[k].score
            /\ AcceptedIn(calls[Main].ret, ps, j)
            /\ AcceptedIn(calls[Main].ret, ps, k)

\* C27: for the same tables, method and flags, the relationships returned
\* with min_confidence high are among those returned with medium, and
\* those returned with medium among those returned with low.
C27_TierMonotone ==
    Returned("detect_fks_tiers") =>
        /\ Range(ret.out["high"]) \subseteq Range(ret.out["medium"])
        /\ Range(ret.out["medium"]) \subseteq Range(ret.out["low"])

\* Three calls of which the one with low accepted, for a source column of
\* which a high-tier relationship is returned by all three, a relationship
\* of a lower tier
C27_Witness ==
    /\ Returned("detect_fks_tiers")
    /\ \E h \in Range(ret.out["high"]), l \in Range(ret.out["low"]) :
          /\ h.from_table = l.from_table /\ h.from_col = l.from_col
          /\ l.confidence # "high"
          /\ l \notin Range(ret.out["high"])
          /\ h \in Range(ret.out["low"])

\* The naming-exact rule on the names as given: the cleaned column name is
\* the cleaned table name followed by _id, or it ends with _id and the
\* cleaned table name begins with what precedes _id
StatedFkFor(col_name, table_name) ==
    LET c == clean_name(col_name)
        t == clean_name(table_name)
    IN  \/ c = t \o << "_", "i", "d" >>
        \/ /\ Len(c) >= 3
           /\ SubSeq(c, Len(c) - 2, Len(c)) = << "_", "i", "d" >>
           /\ Len(t) >= Len(c) - 3
           /\ SubSeq(t, 1, Len(c) - 3) = SubSeq(c, 1, Len(c) - 3)

\* The candidates of T2, in candidate order, of the type class of col1
StatedCompatible(col1, T2) ==
    SelectSeq(StatedCandidates(T2),
              LAMBDA j : TypeClass(T2.cols[j]) = TypeClass(col1))

\* C28: with naming enabled, a pair whose source column name and target
\* table name satisfy the naming-exact rule scores exactly 1.0 whenever the
\* two columns are of the same type class, whatever the target column; and
\* a relationship that detect_fks returns for such a source column and
\* target table points to the first candidate column of the target table,
\* in candidate order, that is of the type class of the source column.
C28_NamingExactTarget ==
    /\ (Returned("score_candidate") /\ ret.flags["naming"]) =>
         LET col1 == Catalog[ret.t1].cols[ret.col1]
             col2 == Catalog[ret.t2].cols[ret.col2]
         IN  (StatedFkFor(col1.name, Catalog[ret.t2].name)
                /\ TypeClass(col1) = TypeClass(col2))
               => (ret.out.ok /\ ret.out.score = 1000)
    /\ (Returned("detect_fks")
        /\ _build_flags(ret.params.method, ret.params.enable_flags)["naming"]) =>
         \A k \in 1..Len(ret.out) :
            LET r    == ret.out[k]
                tabs == Tabs(ret.tables)
                T2   == TableOf(tabs, r.to_table)
                col1 == ColumnOf(tabs, r.from_table, r.from_col)
            IN  StatedFkFor(r.from_col, r.to_table) =>
                  /\ StatedCompatible(col1, T2) # << >>
                  /\ r.to_col = T2.cols[StatedCompatible(col1, T2)[1]].name
                  /\ r.score = 1000

\* A returned relationship under the naming-exact rule whose target column
\* is not the first candidate of the target table and has another name
\* than the source column
C28_Witness ==
    /\ Returned("detect_fks")
    /\ _build_flags(ret.params.method, ret.params.enable_flags)["naming"]
    /\ \E k \in 1..Len(ret.out) :
         LET r  == ret.out[k]
             T2 == TableOf(Tabs(ret.tables), r.to_table)
         IN  /\ StatedFkFor(r.from_col, r.to_table)
             /\ r.to_col # T2.cols[StatedCandidates(T2)[1]].name
             /\ clean_name(r.to_col) # clean_name(r.from_col)

\* The names of the columns of the table called tn of the dict tabs; the
\* empty set when the dict has no such table
StatedColumnsOf(tabs, tn) ==
    UNION { { tabs[a].cols[i].name : i \in 1..Len(tabs[a].cols) } :
            a \in { a \in 1..Len(tabs) : tabs[a].name = tn } }

\* The dict has unique table names and every table unique column names
StatedWellFormed(tabs) ==
    /\ \A a, b \in 1..Len(tabs) : tabs[a].name = tabs[b].name => a = b
    /\ \A a \in 1..Len(tabs) :
          \A i, j \in 1..Len(tabs[a].cols) :
             tabs[a].cols[i].name = tabs[a].cols[j].name => i = j

\* C29: on well-formed tables no relationship returned by detect_fks has
\* its from_table as to_table, no two have the same from_table, from_col
\* and to_table, and every from_col is a column of from_table and every
\* to_col a column of to_table.
C29_WellFormedOutput ==
    (Returned("detect_fks") /\ StatedWellFormed(Tabs(ret.tables))) =>
        /\ \A k \in 1..Len(ret.out) :
              LET r == ret.out[k]
              IN  /\ r.from_table # r.to_table
                  /\ r.from_col \in StatedColumnsOf(Tabs(ret.tables), r.from_table)
                  /\ r.to_col \in StatedColumnsOf(Tabs(ret.tables), r.to_table)
        /\ \A k, l \in 1..Len(ret.out) :
              (/\ ret.out[k].from_table = ret.out[l].from_table
               /\ ret.out[k].from_col = ret.out[l].from_col
               /\ ret.out[k].to_table = ret.out[l].to_table) => k = l

\* A returned list in which one source column has relationships to two
\* tables, and in which the source table has a column that bears the name
\* of the target column
C29_Witness ==
    /\ Returned("detect_fks")
    /\ \E k, l \in 1..Len(ret.out) :
          /\ k # l
          /\ ret.out[k].from_table = ret.out[l].from_table
          /\ ret.out[k].from_col = ret.out[l].from_col
          /\ ret.out[k].to_col
               \in StatedColumnsOf(Tabs(ret.tables), ret.out[k].from_table)

\* C30: after any sequence of uploads, replacements and removals of tables
\* and of changes of the detection parameters, the auto_rels that the run
\* of the script hands to the merge are what detect_fks returns for the
\* tables now loaded and the parameters now set.
C30_CacheFresh ==
    (ret.op = "run" /\ ret.shown) =>
        ret.auto_rels = detect_fks(Tabs(tables), ret.params)

====
